---- MODULE Spec2Model ----
(***************************************************************************)
(* Timeline clip model and audio scheduling engine of the multi-track      *)
(* editor (pages/index.js, components/Timeline.js,                         *)
(* components/AudioPlayer.js, components/AudioClipWaveform.js).            *)
(*                                                                         *)
(* Times are integers counted in milliseconds.  User input (mouse travel,  *)
(* split points, clock samples) is drawn from a grid of Step milliseconds, *)
(* fine enough for a point to fall between the split edge epsilon (50 ms)  *)
(* and MIN_CLIP_DURATION (100 ms).                                         *)
(***************************************************************************)
EXTENDS Integers, Sequences, FiniteSets, TLC

VARIABLES
  clips,           \* index.js: const [clips, setClips]
  selectedClipId,  \* index.js: const [selectedClipId, setSelectedClipId]; 0 is null
  drag,            \* Timeline.js: isDragging/dragType/dragClipId/dragStartSnapshot
  pendingUpload,   \* clips built by handleMediaUpload that await their thumbnail
  nextId,          \* source of fresh clip ids (Date.now() in the code)
  nOps,            \* number of user operations performed so far
  lastOp,          \* name of the operation that produced the current state
  fnIn,            \* a clip list handed to reflow or to track layering
  fnOut,           \* the results of applying the function to it, once and again
  fnArgs,          \* the other arguments the function was applied to
  isPlaying,       \* index.js: const [isPlaying, setIsPlaying]
  currentTime,     \* index.js: const [currentTime, setCurrentTime]
  seekAudio,       \* index.js: const [seekAudio, setSeekAudio]
  enteredImageRef, \* index.js: enteredImageRef.current
  lastVisualIdRef, \* index.js: lastVisualIdRef.current; 0 is null
  mounted,         \* the AudioPlayer component is mounted
  sessionRef,      \* AudioPlayer.js: sessionRef.current
  isPlayingRef,    \* AudioPlayer.js: isPlayingRef.current
  lastSeekRef,     \* AudioPlayer.js: lastSeekRef.current
  active,          \* AudioPlayer.js: const active = new Map(), as the set of its entries
  calls,           \* getBuffer calls in flight, with what awaits them
  cache,           \* AudioPlayer.js: const cache = new Map(), as the set of its keys
  sources,         \* buffer sources started and neither stopped nor ended
  lastCall,        \* the getBuffer call the last step resumed
  lastStop,        \* the last bump-and-stopAll: the token it left, what it stopped and left
  timers,          \* pending teardown timeouts: the source each was set for, time left
  bufferCache,     \* AudioClipWaveform.js: const bufferCache = new Map(), keys in Map order
  renders,         \* renderWave calls that await their fetch and decode
  waveTick,        \* number of keys inserted into bufferCache so far
  lastEvicted,     \* the key bufferCache deleted last, with the tick of its insertion
  lastRead,        \* the key bufferCache.get found last; 0 is none
  nextUrl,         \* the url of the audio file that is opened next
  undoStackRef,    \* part_006: undoStackRef.current, the snapshots updateClips pushed
  redoStackRef,    \* part_006: redoStackRef.current, the snapshots undo pushed
  promises,        \* part_001: const cache = new Map(), url -> promise of its buffer
  globalAudioContext, \* audio-helpers.js: let globalAudioContext; 0 is null
  creatingPromise, \* audio-helpers.js: let creatingPromise, the promise it refers to
  audioContexts,   \* the AudioContexts constructed so far, each with its state
  closing,         \* the context whose close() closeGlobalAudioContext awaits; 0 is none
  ensured          \* what the last settled ensureAudioContextOnGesture call resolved to

storeVars == <<clips, selectedClipId, drag, pendingUpload, nextId, nOps>>
fnVars == <<fnIn, fnOut, fnArgs>>
transportVars == <<isPlaying, currentTime, seekAudio, enteredImageRef, lastVisualIdRef>>
playerVars == <<mounted, sessionRef, isPlayingRef, lastSeekRef, active, calls, cache,
                sources, lastCall, lastStop, timers>>

waveVars == <<bufferCache, renders, waveTick, lastEvicted, lastRead, nextUrl>>

historyVars == <<undoStackRef, redoStackRef>>
memoVars == <<promises>>
contextVars == <<globalAudioContext, creatingPromise, audioContexts, closing, ensured>>

vars == <<storeVars, lastOp, fnVars, transportVars, playerVars, waveVars, historyVars, memoVars, contextVars>>

\* what the Clip Store operations leave alone
notStore == <<fnVars, transportVars, playerVars, waveVars, historyVars, memoVars, contextVars>>
\* what the applications of reflow and layering leave alone
notFn == <<storeVars, transportVars, playerVars, waveVars, historyVars, memoVars, contextVars>>

\* creatingPromise when it is null
NoPromise == [kind |-> "null", state |-> "none", value |-> 0, ctx |-> 0]

\* audio-helpers.js as the module is loaded
ContextInit ==
  /\ globalAudioContext = 0
  /\ creatingPromise = NoPromise
  /\ audioContexts = <<>>
  /\ closing = 0
  /\ ensured = [calls |-> 0, settled |-> 0, value |-> 0]

----------------------------------------------------------------------------
(* Bounds *)

MaxOps == 5          \* length of the user sessions explored
MaxClips == 3        \* clips on the timeline at once
MaxDelta == 1        \* mouse travel during a drag, in grid steps, either direction
MaxContexts == 3     \* AudioContexts constructed in one run
MaxEnsures == 4      \* calls of ensureAudioContextOnGesture in one run
MaxFnLen == 3        \* length of the clip lists handed to reflow and layering
MaxSession == 3      \* largest session token explored
MaxSeeks == 1        \* discrete seeks per run

(* Program constants, in milliseconds *)

SPLIT_EPS == 50            \* 0.05 s
MIN_CLIP_DURATION == 100   \* 0.1 s
IMAGE_DURATION == 3000     \* 3 s
DEFAULT_DURATION == 10000  \* 10 s
EPS == 2                   \* 0.002 s
WINDOW_SLACK == 1          \* 0.001 s
TEARDOWN_DELAY == 100      \* setTimeout(teardown, (dur + 0.1) * 1000)
TEARDOWN_RETRY == 50       \* setTimeout(teardown, 50)
TEARDOWN_SLACK == 10       \* AC.currentTime >= endsAtCtx - 0.01

(* Inputs *)

Step == 25                            \* grid of the user input, in milliseconds
MediaDurations == {200}               \* decoded length of an uploaded audio/video file
Deltas == {k * Step : k \in (0 - MaxDelta)..MaxDelta}    \* deltaTime of a mouse move
ClipTypes == {"video", "image", "audio"}
DragTypes == {"move", "trim-left", "trim-right"}

NoDrag == [type |-> "none"]

----------------------------------------------------------------------------
(* Helpers *)

Max(a, b) == IF a >= b THEN a ELSE b
Min(a, b) == IF a <= b THEN a ELSE b

IsVisual(c) == c.type = "video" \/ c.type = "image"
IsAudio(c) == c.type = "audio"

Range(s) == {s[i] : i \in 1..Len(s)}

RECURSIVE SeqMax(_, _)
SeqMax(s, acc) == IF s = <<>> THEN acc ELSE SeqMax(Tail(s), Max(acc, Head(s)))

\* visible (trimmed) length of a clip
VisibleLength(c) == c.duration - c.trimStart - c.trimEnd

\* position of the clip with the given id, 0 when absent (Array.findIndex)
FindIndex(s, id) ==
  IF \E i \in 1..Len(s) : s[i].id = id
    THEN CHOOSE i \in 1..Len(s) : s[i].id = id /\ \A j \in 1..(i - 1) : s[j].id # id
    ELSE 0

\* [...arr].sort((a, b) => a.startTime - b.startTime): stable, ascending
RECURSIVE InsertByStartTime(_, _)
InsertByStartTime(sorted, c) ==
  IF sorted = <<>> THEN <<c>>
  ELSE IF c.startTime < Head(sorted).startTime
    THEN <<c>> \o sorted
    ELSE <<Head(sorted)>> \o InsertByStartTime(Tail(sorted), c)

RECURSIVE SortByStartTime(_)
SortByStartTime(s) ==
  IF s = <<>> THEN <<>>
  ELSE InsertByStartTime(SortByStartTime(SubSeq(s, 1, Len(s) - 1)), s[Len(s)])

----------------------------------------------------------------------------
(* Reflow: pages/index.js autoReflowClips *)

\* a reflow that only pushes clips right, leaving the gaps in place
RECURSIVE PackFrom_KeepGaps(_, _)
PackFrom_KeepGaps(sorted, curTime) ==
  IF sorted = <<>> THEN <<>>
  ELSE LET clip == Head(sorted)
           newStart == Max(curTime, clip.startTime)
           clipLength == clip.duration - clip.trimStart - clip.trimEnd
           newEnd == newStart + clipLength
       IN <<[clip EXCEPT !.startTime = newStart, !.endTime = newEnd]>>
            \o PackFrom_KeepGaps(Tail(sorted), newEnd)

RECURSIVE PackFrom(_, _)
PackFrom(sorted, curTime) ==
  IF sorted = <<>> THEN <<>>
  ELSE LET clip == Head(sorted)
           newStart == curTime
           clipLength == clip.duration - clip.trimStart - clip.trimEnd
           newEnd == newStart + clipLength
       IN <<[clip EXCEPT !.startTime = newStart, !.endTime = newEnd]>>
            \o PackFrom(Tail(sorted), newEnd)

\* a reflow that returns the visual clips only
autoReflowClips_VisualsOnly(inputClips) ==
  LET sorted == SortByStartTime(SelectSeq(inputClips, IsVisual))
  IN PackFrom(sorted, 0)

autoReflowClips(inputClips) ==
  LET sorted == SortByStartTime(SelectSeq(inputClips, IsVisual))
      adjusted == PackFrom(sorted, 0)
      nonVisuals == SelectSeq(inputClips, LAMBDA c : ~IsVisual(c))
  IN adjusted \o nonVisuals

----------------------------------------------------------------------------
(* Track layering: pages/index.js fixAudioTrackLayers,                     *)
(* components/Timeline.js adjustAudioTracks                                *)

\* a layer test that looks at where the last clip starts, not where it ends
FirstFreeLayer_ByStart(layers, clip) ==
  LET fits(i) == clip.startTime >= layers[i][Len(layers[i])].startTime
  IN IF \E i \in 1..Len(layers) : fits(i)
       THEN CHOOSE i \in 1..Len(layers) : fits(i) /\ \A j \in 1..(i - 1) : ~fits(j)
       ELSE 0

\* index of the first layer whose last clip ends at or before the clip
\* starts, 0 when there is none
FirstFreeLayer(layers, clip) ==
  LET fits(i) == clip.startTime >= layers[i][Len(layers[i])].endTime
  IN IF \E i \in 1..Len(layers) : fits(i)
       THEN CHOOSE i \in 1..Len(layers) : fits(i) /\ \A j \in 1..(i - 1) : ~fits(j)
       ELSE 0

RECURSIVE PlaceInLayers(_, _)
PlaceInLayers(sorted, layers) ==
  IF sorted = <<>> THEN layers
  ELSE LET clip == Head(sorted)
           i == FirstFreeLayer(layers, clip)
       IN IF i # 0
            THEN PlaceInLayers(Tail(sorted), [layers EXCEPT ![i] = Append(@, clip)])
            ELSE PlaceInLayers(Tail(sorted), Append(layers, <<clip>>))

\* track of clip id in the layers (layer index i of the code is i - 1 here)
LayerOf(layers, id) ==
  IF \E i \in 1..Len(layers) : \E k \in 1..Len(layers[i]) : layers[i][k].id = id
    THEN (CHOOSE i \in 1..Len(layers) :
            /\ \E k \in 1..Len(layers[i]) : layers[i][k].id = id
            /\ \A j \in 1..(i - 1) : \A k \in 1..Len(layers[j]) : layers[j][k].id # id) - 1
    ELSE -1

\* the clips ordered by falling track number
RECURSIVE ByFallingTrack(_)
ByFallingTrack(s) ==
  IF s = <<>> THEN <<>>
  ELSE LET top == CHOOSE i \in 1..Len(s) :
                    /\ \A j \in 1..Len(s) : s[j].track <= s[i].track
                    /\ \A j \in 1..(i - 1) : s[j].track < s[i].track
       IN <<s[top]>> \o ByFallingTrack(SubSeq(s, 1, top - 1) \o SubSeq(s, top + 1, Len(s)))

\* a layering whose sort breaks ties of startTime by the track the clips came
\* in on instead of by their order in the list
fixAudioTrackLayers_TieByTrack(clipsArr) ==
  LET audioClips == SelectSeq(clipsArr, IsAudio)
      sorted == SortByStartTime(ByFallingTrack(audioClips))
      layers == PlaceInLayers(sorted, <<>>)
  IN [i \in 1..Len(clipsArr) |->
        IF LayerOf(layers, clipsArr[i].id) >= 0
          THEN [clipsArr[i] EXCEPT !.track = LayerOf(layers, clipsArr[i].id)]
          ELSE clipsArr[i]]

fixAudioTrackLayers(clipsArr) ==
  LET audioClips == SelectSeq(clipsArr, IsAudio)
      sorted == SortByStartTime(audioClips)
      layers == PlaceInLayers(sorted, <<>>)
  IN [i \in 1..Len(clipsArr) |->
        IF LayerOf(layers, clipsArr[i].id) >= 0
          THEN [clipsArr[i] EXCEPT !.track = LayerOf(layers, clipsArr[i].id)]
          ELSE clipsArr[i]]

\* Timeline.js: the same algorithm over the audio clips only; the result is
\* the layers flattened in layer order
adjustAudioTracks(audioClips) ==
  LET sorted == SortByStartTime(audioClips)
      layers == PlaceInLayers(sorted, <<>>)
      RECURSIVE Flat(_)
      Flat(i) == IF i > Len(layers) THEN <<>>
                 ELSE [k \in 1..Len(layers[i]) |-> [layers[i][k] EXCEPT !.track = i - 1]]
                        \o Flat(i + 1)
  IN Flat(1)

----------------------------------------------------------------------------
(* Clip Store operations: pages/index.js *)

\* { ...c, ...updates }
Merge(c, updates) ==
  [f \in DOMAIN c |-> IF f \in DOMAIN updates THEN updates[f] ELSE c[f]]

\* the updater handleClipUpdate passes to setClips, applied to prev
handleClipUpdate(prev, clipId, updates) ==
  LET idx == FindIndex(prev, clipId)
      updated == [i \in 1..Len(prev) |->
                    IF prev[i].id = clipId THEN Merge(prev[i], updates) ELSE prev[i]]
      affectsTimeline == \/ "startTime" \in DOMAIN updates
                         \/ "trimStart" \in DOMAIN updates
                         \/ "trimEnd" \in DOMAIN updates
      isVisual == idx # 0 /\ IsVisual(prev[idx])
  IN IF affectsTimeline /\ isVisual THEN autoReflowClips(updated) ELSE updated

\* a split that measures the cut from the start of the window, not of the file
handleSplitAudio_CutFromWindow(prevClips, clipId, splitTime, id1, id2) ==
  LET index == FindIndex(prevClips, clipId)
  IN IF index = 0 THEN prevClips
     ELSE LET clip == prevClips[index]
          IN IF \/ splitTime <= clip.startTime + SPLIT_EPS
                \/ splitTime >= clip.endTime - SPLIT_EPS
               THEN prevClips
               ELSE LET splitRelative == splitTime - clip.startTime
                        firstPart == [clip EXCEPT !.id = id1,
                                                  !.endTime = splitTime,
                                                  !.trimEnd = clip.duration - splitRelative]
                        secondPart == [clip EXCEPT !.id = id2,
                                                   !.startTime = splitTime,
                                                   !.trimStart = splitRelative]
                    IN SubSeq(prevClips, 1, index - 1)
                         \o <<firstPart, secondPart>>
                         \o SubSeq(prevClips, index + 1, Len(prevClips))

\* a split whose second part keeps the startTime of the clip
handleSplitAudio_SecondKeepsStart(prevClips, clipId, splitTime, id1, id2) ==
  LET index == FindIndex(prevClips, clipId)
  IN IF index = 0 THEN prevClips
     ELSE LET clip == prevClips[index]
          IN IF \/ splitTime <= clip.startTime + SPLIT_EPS
                \/ splitTime >= clip.endTime - SPLIT_EPS
               THEN prevClips
               ELSE LET splitRelative == clip.trimStart + (splitTime - clip.startTime)
                        firstPart == [clip EXCEPT !.id = id1,
                                                  !.endTime = splitTime,
                                                  !.trimEnd = clip.duration - splitRelative]
                        secondPart == [clip EXCEPT !.id = id2,
                                                   !.trimStart = splitRelative]
                    IN SubSeq(prevClips, 1, index - 1)
                         \o <<firstPart, secondPart>>
                         \o SubSeq(prevClips, index + 1, Len(prevClips))

\* a split that only refuses points on or outside the edges
handleSplitAudio_NoEpsilon(prevClips, clipId, splitTime, id1, id2) ==
  LET index == FindIndex(prevClips, clipId)
  IN IF index = 0 THEN prevClips
     ELSE LET clip == prevClips[index]
          IN IF \/ splitTime <= clip.startTime
                \/ splitTime >= clip.endTime
               THEN prevClips
               ELSE LET splitRelative == clip.trimStart + (splitTime - clip.startTime)
                        firstPart == [clip EXCEPT !.id = id1,
                                                  !.endTime = splitTime,
                                                  !.trimEnd = clip.duration - splitRelative]
                        secondPart == [clip EXCEPT !.id = id2,
                                                   !.startTime = splitTime,
                                                   !.trimStart = splitRelative]
                    IN SubSeq(prevClips, 1, index - 1)
                         \o <<firstPart, secondPart>>
                         \o SubSeq(prevClips, index + 1, Len(prevClips))

\* the updater handleSplitAudio passes to setClips, applied to prevClips
handleSplitAudio(prevClips, clipId, splitTime, id1, id2) ==
  LET index == FindIndex(prevClips, clipId)
  IN IF index = 0 THEN prevClips
     ELSE LET clip == prevClips[index]
          IN IF \/ splitTime <= clip.startTime + SPLIT_EPS
                \/ splitTime >= clip.endTime - SPLIT_EPS
               THEN prevClips
               ELSE LET splitOffset == splitTime - clip.startTime
                        splitRelative == clip.trimStart + splitOffset
                        firstPart == [clip EXCEPT !.id = id1,
                                                  !.endTime = splitTime,
                                                  !.trimStart = clip.trimStart,
                                                  !.trimEnd = clip.duration - splitRelative]
                        secondPart == [clip EXCEPT !.id = id2,
                                                   !.startTime = splitTime,
                                                   !.trimStart = splitRelative,
                                                   !.trimEnd = clip.trimEnd]
                    IN SubSeq(prevClips, 1, index - 1)
                         \o <<firstPart, secondPart>>
                         \o SubSeq(prevClips, index + 1, Len(prevClips))

\* smallest track number no audio clip uses (handleMediaUpload)
NextFreeTrack(audioClips) ==
  LET used == {audioClips[i].track : i \in 1..Len(audioClips)}
  IN CHOOSE t \in 0..Len(audioClips) : t \notin used /\ \A u \in 0..(t - 1) : u \in used

\* the clip handleMediaUpload builds for a file of the given type and length
NewClip(cur, id, type, duration) ==
  LET sameKind == IF type = "audio" THEN SelectSeq(cur, IsAudio)
                  ELSE SelectSeq(cur, IsVisual)
      ends == [i \in 1..Len(sameKind) |-> sameKind[i].endTime]
      startTime == IF sameKind = <<>> THEN 0 ELSE SeqMax(Tail(ends), Head(ends))
      track == IF type = "audio" THEN NextFreeTrack(sameKind) ELSE 0
  IN [id |-> id, type |-> type, url |-> id, duration |-> duration,
      startTime |-> startTime, endTime |-> startTime + duration,
      trimStart |-> 0, trimEnd |-> 0, track |-> track]

DefaultClip ==
  [id |-> 1, type |-> "video", url |-> 1, duration |-> DEFAULT_DURATION,
   startTime |-> 0, endTime |-> DEFAULT_DURATION, trimStart |-> 0, trimEnd |-> 0,
   track |-> 0]

----------------------------------------------------------------------------
(* Timeline drag handlers: components/Timeline.js *)

\* the setClips updaters one mousemove event queues, applied in order to cur;
\* `cur` is also the clips prop the handler reads (the list of the last render)
handleMouseMove(cur, d, deltaTime) ==
  LET clip == cur[FindIndex(cur, d.clipId)]
  IN IF d.type = "move" THEN
       LET newStartTime == Max(0, d.startTime + deltaTime)
           clipDuration == d.endTime - d.startTime
       IN handleClipUpdate(cur, clip.id,
            [startTime |-> newStartTime, endTime |-> newStartTime + clipDuration])
     ELSE IF d.type = "trim-left" THEN
       IF clip.type = "image" THEN
         LET newStart == Max(0, d.startTime + deltaTime)
             newDuration == Max(MIN_CLIP_DURATION, d.endTime - newStart)
         IN handleClipUpdate(cur, clip.id,
              [startTime |-> newStart, endTime |-> d.endTime, duration |-> newDuration])
       ELSE
         LET newTrimStart == Min(Max(0, d.trimStart + deltaTime),
                                 clip.duration - d.trimEnd - MIN_CLIP_DURATION)
             trimChange == newTrimStart - d.trimStart
             newStartTime == d.startTime + trimChange
             newTimelineDuration == clip.duration - newTrimStart - d.trimEnd
             newEndTime == newStartTime + newTimelineDuration
         IN handleClipUpdate(cur, clip.id,
              [trimStart |-> newTrimStart, startTime |-> newStartTime,
               endTime |-> newEndTime])
     ELSE \* trim-right
       IF clip.type = "image" THEN
         LET later == SortByStartTime(
                        SelectSeq(cur, LAMBDA c : c.startTime > clip.startTime))
             hasNext == later # <<>>
             nextClip == later[1]
             newEndTime0 == d.endTime + deltaTime
             overlap == newEndTime0 - nextClip.startTime
             shrinkGap == d.endTime - newEndTime0
             pulledStart == Max(0, nextClip.startTime - shrinkGap)
             pulledEnd == Max(pulledStart + (nextClip.endTime - nextClip.startTime), 0)
             afterNext ==
               IF deltaTime > 0 /\ hasNext /\ overlap > 0
                 THEN handleClipUpdate(cur, nextClip.id,
                        [startTime |-> nextClip.startTime + overlap,
                         endTime |-> nextClip.endTime + overlap])
               ELSE IF deltaTime < 0 /\ hasNext
                 THEN handleClipUpdate(cur, nextClip.id,
                        [startTime |-> pulledStart, endTime |-> pulledEnd])
               ELSE cur
             newEndTime == Max(newEndTime0, d.startTime + MIN_CLIP_DURATION)
             newDuration == newEndTime - d.startTime
         IN handleClipUpdate(afterNext, clip.id,
              [duration |-> newDuration, endTime |-> newEndTime])
       ELSE
         LET newTrimEnd == Min(Max(0, d.trimEnd - deltaTime),
                               clip.duration - d.trimStart - MIN_CLIP_DURATION)
             newTimelineDuration == clip.duration - d.trimStart - newTrimEnd
         IN handleClipUpdate(cur, clip.id,
              [trimEnd |-> newTrimEnd, endTime |-> d.startTime + newTimelineDuration])

\* the list handleDragEnd hands to onAutoLayerFix, which stores
\* fixAudioTrackLayers of it
handleDragEnd(cur, clipId, newStartTime) ==
  LET clip == cur[FindIndex(cur, clipId)]
      clipTimelineDuration == clip.duration - clip.trimStart - clip.trimEnd
      updated == [i \in 1..Len(cur) |->
                    IF cur[i].id = clipId
                      THEN [cur[i] EXCEPT !.startTime = newStartTime,
                                          !.endTime = newStartTime + clipTimelineDuration]
                      ELSE cur[i]]
      layered == adjustAudioTracks(SelectSeq(updated, IsAudio))
      merged == [i \in 1..Len(updated) |->
                   IF FindIndex(layered, updated[i].id) # 0
                     THEN [updated[i] EXCEPT
                             !.track = layered[FindIndex(layered, updated[i].id)].track]
                     ELSE updated[i]]
  IN fixAudioTrackLayers(merged)

----------------------------------------------------------------------------
(* Actions of the Clip Store *)

\* handleMediaUpload up to the await of the thumbnail: the new clip is built
\* from clipsRef.current
UploadBegin ==
  /\ nOps < MaxOps
  /\ Len(clips) + Len(pendingUpload) < MaxClips
  /\ pendingUpload = <<>>
  /\ \E type \in ClipTypes :
       \E duration \in (IF type = "image" THEN {IMAGE_DURATION} ELSE MediaDurations) :
         pendingUpload' = Append(pendingUpload, NewClip(clips, nextId, type, duration))
  /\ nextId' = nextId + 1
  /\ nOps' = nOps + 1
  /\ lastOp' = "uploadBegin"
  /\ UNCHANGED <<clips, selectedClipId, drag>>
  /\ UNCHANGED notStore

\* handleMediaUpload after the await: setClips(prev => fixAudioTrackLayers([...prev, newClip]))
UploadCommit ==
  /\ pendingUpload # <<>>
  /\ clips' = fixAudioTrackLayers(Append(clips, Head(pendingUpload)))
  /\ pendingUpload' = Tail(pendingUpload)
  /\ selectedClipId' = IF selectedClipId = 0 THEN Head(pendingUpload).id ELSE selectedClipId
  /\ lastOp' = "upload"
  /\ UNCHANGED <<drag, nextId, nOps>>
  /\ UNCHANGED notStore

\* the points of a clip the context menu can be opened at, on the input grid
SplitTimes(c) ==
  {t \in c.startTime..c.endTime : (t - c.startTime) % Step = 0}

\* context menu on an audio clip: onSplitAudio(clip.id, splitTime)
Split ==
  /\ nOps < MaxOps
  /\ Len(clips) + Len(pendingUpload) < MaxClips
  /\ \E i \in 1..Len(clips) :
       /\ clips[i].type = "audio"
       /\ \E splitTime \in SplitTimes(clips[i]) :
            clips' = handleSplitAudio(clips, clips[i].id, splitTime, nextId, nextId + 1)
  /\ nextId' = nextId + 2
  /\ nOps' = nOps + 1
  /\ lastOp' = "split"
  /\ UNCHANGED <<selectedClipId, drag, pendingUpload>>
  /\ UNCHANGED notStore

\* handleKeyDown, Delete/Backspace, followed by the effect that selects
\* clips[0] when nothing is selected
Delete ==
  /\ nOps < MaxOps
  /\ selectedClipId # 0
  /\ clips' = SelectSeq(clips, LAMBDA c : c.id # selectedClipId)
  /\ selectedClipId' = IF clips' # <<>> THEN clips'[1].id ELSE 0
  /\ nOps' = nOps + 1
  /\ lastOp' = "delete"
  /\ UNCHANGED <<drag, pendingUpload, nextId>>
  /\ UNCHANGED notStore

\* handleClipMouseDown; the trim handles exist on the selected clip only
MouseDown ==
  /\ nOps < MaxOps
  /\ drag = NoDrag
  /\ \E i \in 1..Len(clips) : \E type \in DragTypes :
       /\ type # "move" => clips[i].id = selectedClipId
       /\ drag' = [type |-> type, clipId |-> clips[i].id,
                   startTime |-> clips[i].startTime, endTime |-> clips[i].endTime,
                   trimStart |-> clips[i].trimStart, trimEnd |-> clips[i].trimEnd]
       /\ selectedClipId' = clips[i].id
  /\ nOps' = nOps + 1
  /\ lastOp' = "mouseDown"
  /\ UNCHANGED <<clips, pendingUpload, nextId>>
  /\ UNCHANGED notStore

MouseMove ==
  /\ nOps < MaxOps
  /\ drag # NoDrag
  /\ FindIndex(clips, drag.clipId) # 0
  /\ \E deltaTime \in Deltas : clips' = handleMouseMove(clips, drag, deltaTime)
  /\ nOps' = nOps + 1
  /\ lastOp' = drag.type
  /\ UNCHANGED <<selectedClipId, drag, pendingUpload, nextId>>
  /\ UNCHANGED notStore

MouseUp ==
  /\ drag # NoDrag
  /\ clips' = IF drag.type = "move" /\ FindIndex(clips, drag.clipId) # 0
                THEN handleDragEnd(clips, drag.clipId,
                                   clips[FindIndex(clips, drag.clipId)].startTime)
                ELSE clips
  /\ drag' = NoDrag
  /\ lastOp' = "mouseUp"
  /\ UNCHANGED <<selectedClipId, pendingUpload, nextId, nOps>>
  /\ UNCHANGED notStore

StoreInit ==
  /\ clips = <<DefaultClip>>
  /\ selectedClipId = 1
  /\ drag = NoDrag
  /\ pendingUpload = <<>>
  /\ nextId = 2
  /\ nOps = 0

FnIdle ==
  /\ fnIn = <<>>
  /\ fnOut = <<>>
  /\ fnArgs = [op |-> "none"]

NoCall == [kind |-> "none"]

\* the transport and the AudioPlayer after the mount effects, no audio clip
\* being on the timeline: the play/pause effect has run once
PlayerInit ==
  /\ isPlaying = FALSE
  /\ currentTime = 0
  /\ seekAudio = 0
  /\ enteredImageRef = FALSE
  /\ lastVisualIdRef = 0
  /\ mounted = TRUE
  /\ sessionRef = 1
  /\ isPlayingRef = FALSE
  /\ lastSeekRef = 0
  /\ active = {}
  /\ calls = {}
  /\ cache = {}
  /\ sources = {}
  /\ lastCall = NoCall
  /\ lastStop = [session |-> 1, before |-> 0, left |-> {}]
  /\ timers = {}

\* no waveform has been drawn
WaveInit ==
  /\ bufferCache = <<>>
  /\ renders = {}
  /\ waveTick = 0
  /\ lastEvicted = [key |-> 0, at |-> 0]
  /\ lastRead = 0
  /\ nextUrl = 2

Init ==
  /\ StoreInit
  /\ lastOp = "init"
  /\ FnIdle
  /\ PlayerInit
  /\ WaveInit
  /\ undoStackRef = <<>>
  /\ redoStackRef = <<>>
  /\ promises = <<>>
  /\ ContextInit

Next ==
  \/ UploadBegin
  \/ UploadCommit
  \/ Split
  \/ Delete
  \/ MouseDown
  \/ MouseMove
  \/ MouseUp

Spec == Init /\ [][Next]_vars

----------------------------------------------------------------------------
(* Clip Store contracts *)

Disjoint(a, b) == a.endTime <= b.startTime \/ b.endTime <= a.startTime

\* the visual clips of a list are packed from 0 without gap or overlap
Packed(list) ==
  LET v == SortByStartTime(SelectSeq(list, IsVisual))
  IN /\ v # <<>> => v[1].startTime = 0
     /\ \A i \in 1..(Len(v) - 1) : v[i + 1].startTime = v[i].endTime

\* no two audio clips of a list share a track while overlapping in time
LayersDisjoint(list) ==
  \A i, j \in 1..Len(list) :
    (i < j /\ IsAudio(list[i]) /\ IsAudio(list[j]) /\ list[i].track = list[j].track)
      => Disjoint(list[i], list[j])

\* C1: after every Clip Store mutation the Video/Image clips are packed:
\* the first starts at 0 and each next one starts where the previous ends.
C1_VisualsPacked == Packed(clips)

\* C2: after every Clip Store mutation, two Audio clips with the same track
\* have disjoint [startTime, endTime) intervals.
C2_AudioTracksDisjoint == LayersDisjoint(clips)

\* C3: after any Clip Store operation every clip satisfies
\* endTime - startTime = duration - trimStart - trimEnd.
C3_PlacementMatchesTrim ==
  \A i \in 1..Len(clips) :
    clips[i].endTime - clips[i].startTime = VisibleLength(clips[i])

\* C4: after any Clip Store operation every clip has trimStart >= 0,
\* trimEnd >= 0 and trimStart + trimEnd < duration.
C4_TrimsValid ==
  \A i \in 1..Len(clips) :
    /\ clips[i].trimStart >= 0
    /\ clips[i].trimEnd >= 0
    /\ clips[i].trimStart + clips[i].trimEnd < clips[i].duration

\* the invariants an edit must not break
ClipValid(c) ==
  /\ c.trimStart >= 0
  /\ c.trimEnd >= 0
  /\ c.trimStart + c.trimEnd < c.duration
  /\ c.endTime - c.startTime > 0

\* C15: a move or trim request whose result would break a clip invariant (a
\* negative trim, trimStart + trimEnd >= duration, a non-positive visible
\* length) is rejected: the clip list after it equals the list before it.
C15_InvalidEditRejected ==
  [][(lastOp' \in DragTypes /\ \A i \in 1..Len(clips) : ClipValid(clips[i]))
       => (clips' = clips \/ \A i \in 1..Len(clips') : ClipValid(clips'[i]))]_vars

----------------------------------------------------------------------------
(* Reflow and track layering as functions of an arbitrary clip list *)

FnStarts == {0, 100, 200}
FnLengths == {100, 200}

\* a clip at list position i; the trims and the incoming track vary with i
FnClip(i, type, startTime, len) ==
  LET trimStart == IF i % 2 = 1 THEN 50 ELSE 0
      trimEnd == IF i % 2 = 1 THEN 25 ELSE 0
  IN [id |-> i, type |-> type, url |-> i, duration |-> trimStart + len + trimEnd,
      startTime |-> startTime, endTime |-> startTime + len,
      trimStart |-> trimStart, trimEnd |-> trimEnd, track |-> i % 2]

FnInit ==
  /\ StoreInit
  /\ lastOp = "init"
  /\ FnIdle
  /\ PlayerInit
  /\ WaveInit
  /\ undoStackRef = <<>>
  /\ redoStackRef = <<>>
  /\ promises = <<>>
  /\ ContextInit

\* the input list grows by one arbitrary clip until the function is applied
FnExtend ==
  /\ fnOut = <<>>
  /\ Len(fnIn) < MaxFnLen
  /\ \E type \in ClipTypes, startTime \in FnStarts, len \in FnLengths :
       fnIn' = Append(fnIn, FnClip(Len(fnIn) + 1, type, startTime, len))
  /\ lastOp' = "input"
  /\ UNCHANGED <<fnOut, fnArgs>>
  /\ UNCHANGED notFn

FnArg == IF fnOut = <<>> THEN fnIn ELSE fnOut[Len(fnOut)]

ApplyReflow ==
  /\ Len(fnOut) < 2
  /\ fnOut' = Append(fnOut, autoReflowClips(FnArg))
  /\ lastOp' = "reflow"
  /\ UNCHANGED <<fnIn, fnArgs>>
  /\ UNCHANGED notFn

ApplyLayering ==
  /\ Len(fnOut) < 2
  /\ fnOut' = Append(fnOut, fixAudioTrackLayers(FnArg))
  /\ lastOp' = "layering"
  /\ UNCHANGED <<fnIn, fnArgs>>
  /\ UNCHANGED notFn

NextReflow ==
  \/ FnExtend
  \/ ApplyReflow

NextLayering ==
  \/ FnExtend
  \/ ApplyLayering

SpecReflow == FnInit /\ [][NextReflow]_vars

SpecLayering == FnInit /\ [][NextLayering]_vars

\* C9: reflow is idempotent and its output is packed from time 0 with no
\* gap and no overlap among the Video/Image clips.
C9_ReflowIdempotent ==
  /\ Len(fnOut) >= 1 => Packed(fnOut[1])
  /\ Len(fnOut) >= 2 => fnOut[2] = fnOut[1]

\* reflow applied twice to a list of at least two visual clips that it changes
C9_Witness ==
  /\ lastOp = "reflow"
  /\ Len(fnOut) = 2
  /\ Len(SelectSeq(fnIn, IsVisual)) >= 2
  /\ ~Packed(fnIn)
  /\ fnOut[1] # fnIn

\* C23: reflow adds and drops no clip, returns every audio clip with all its
\* fields as they were, and changes nothing of a visual clip but its
\* startTime and endTime.
C23_ReflowTouchesOnlyVisualTimes ==
  Len(fnOut) >= 1 =>
    /\ Len(fnOut[1]) = Len(fnIn)
    /\ \A c \in Range(fnIn) :
         \E o \in Range(fnOut[1]) :
           /\ o.id = c.id
           /\ IF IsAudio(c) THEN o = c
              ELSE [o EXCEPT !.startTime = c.startTime, !.endTime = c.endTime] = c

\* reflow has moved a visual clip of a list that also holds an audio clip
C23_Witness ==
  /\ lastOp = "reflow"
  /\ Len(fnOut) >= 1
  /\ \E c \in Range(fnIn) : IsAudio(c)
  /\ \E c \in Range(fnIn) : IsVisual(c) /\ c \notin Range(fnOut[1])

\* C10: the output of track layering never gives the same track to two
\* audio clips whose [startTime, endTime) intervals overlap.
C10_LayeringDisjoint ==
  /\ Len(fnOut) >= 1 => LayersDisjoint(fnOut[1])
  /\ LayersDisjoint(adjustAudioTracks(SelectSeq(fnIn, IsAudio)))

\* layering applied to a list in which two overlapping audio clips came in
\* on the same track
C10_Witness ==
  /\ lastOp = "layering"
  /\ Len(fnOut) >= 1
  /\ ~LayersDisjoint(fnIn)
  /\ \E i \in 1..Len(fnOut[1]) : IsAudio(fnOut[1][i]) /\ fnOut[1][i].track >= 1

\* C11: track layering is a fixed point on its own output: applied to the
\* list it produced it changes no track and no other field, also when
\* several audio clips share a startTime.
C11_LayeringFixedPoint ==
  Len(fnOut) >= 2 => fnOut[2] = fnOut[1]

\* layering applied twice to a list in which two audio clips share a
\* startTime and which the first application has changed
C11_Witness ==
  /\ lastOp = "layering"
  /\ Len(fnOut) = 2
  /\ fnOut[1] # fnIn
  /\ \E i, j \in 1..Len(fnIn) :
       /\ i < j
       /\ IsAudio(fnIn[i]) /\ IsAudio(fnIn[j])
       /\ fnIn[i].startTime = fnIn[j].startTime

----------------------------------------------------------------------------
(* handleSplitAudio as a function of an arbitrary clip list, clip id and    *)
(* split time                                                               *)

\* split times around the two edges of a clip, on the input grid
SplitPoints(c) ==
  {c.startTime - Step, c.startTime + Step, c.startTime + SPLIT_EPS,
   c.startTime + SPLIT_EPS + Step, c.endTime - SPLIT_EPS - Step,
   c.endTime - SPLIT_EPS, c.endTime - Step, c.endTime + Step}

\* onSplitAudio(clipId, splitTime); the id after the last one matches no clip
ApplySplit ==
  /\ fnOut = <<>>
  /\ \E clipId \in 1..(Len(fnIn) + 1) :
       \E splitTime \in (IF clipId <= Len(fnIn) THEN SplitPoints(fnIn[clipId])
                                                ELSE {SPLIT_EPS + Step}) :
         /\ fnOut' = <<handleSplitAudio(fnIn, clipId, splitTime,
                                        Len(fnIn) + 1, Len(fnIn) + 2)>>
         /\ fnArgs' = [op |-> "split", clipId |-> clipId, splitTime |-> splitTime]
  /\ lastOp' = "split"
  /\ UNCHANGED fnIn
  /\ UNCHANGED notFn

NextSplit ==
  \/ FnExtend
  \/ ApplySplit

SpecSplit == FnInit /\ [][NextSplit]_vars

\* the split point is accepted: the id matches a clip and the time lies inside
\* its window, more than the edge epsilon away from either edge
SplitAccepted ==
  /\ fnArgs.op = "split"
  /\ FindIndex(fnIn, fnArgs.clipId) # 0
  /\ fnArgs.splitTime - fnIn[FindIndex(fnIn, fnArgs.clipId)].startTime > SPLIT_EPS
  /\ fnIn[FindIndex(fnIn, fnArgs.clipId)].endTime - fnArgs.splitTime > SPLIT_EPS

PlacementMatches(c) == c.endTime - c.startTime = c.duration - c.trimStart - c.trimEnd

C14_SplitNoOp ==
  (fnArgs.op = "split" /\ ~SplitAccepted) => fnOut[1] = fnIn

\* a split was asked for strictly inside the window, exactly the epsilon
\* before the end of the clip
C14_Witness ==
  /\ fnArgs.op = "split"
  /\ FindIndex(fnIn, fnArgs.clipId) # 0
  /\ LET c == fnIn[FindIndex(fnIn, fnArgs.clipId)]
     IN /\ fnArgs.splitTime = c.endTime - SPLIT_EPS
        /\ fnArgs.splitTime > c.startTime + SPLIT_EPS
  /\ fnOut[1] = fnIn

----------------------------------------------------------------------------
(* Audio scheduler: components/AudioPlayer.js *)

visLen(c) ==
  LET d == Max(0, c.duration)
      ts == Max(0, c.trimStart)
      te == Max(0, c.trimEnd)
  IN Max(0, d - ts - te)

clipEnd(c) == c.endTime

inWindow(c, t) == visLen(c) > 0 /\ t >= c.startTime /\ t < clipEnd(c)

bufferOffsetFor(c, timelineT) ==
  LET off == c.trimStart + (timelineT - c.startTime)
      max == c.trimStart + visLen(c) - WINDOW_SLACK
  IN Max(0, Min(off, max))

\* the module-level and ref state of the player, as one value the effects
\* transform in turn
Player ==
  [session |-> sessionRef, playingRef |-> isPlayingRef, lastSeek |-> lastSeekRef,
   active |-> active, calls |-> calls, cache |-> cache, sources |-> sources,
   lastStop |-> lastStop, timers |-> timers]

SetPlayer(st) ==
  /\ sessionRef' = st.session
  /\ isPlayingRef' = st.playingRef
  /\ lastSeekRef' = st.lastSeek
  /\ active' = st.active
  /\ calls' = st.calls
  /\ cache' = st.cache
  /\ sources' = st.sources
  /\ lastStop' = st.lastStop
  /\ timers' = st.timers

ActiveIds(st) == {e.id : e \in st.active}

\* a stopClip that leaves the teardown timeout of the entry pending
stopClip_KeepsTimer(st, id) ==
  LET e == {x \in st.active : x.id = id}
  IN IF e = {} THEN st
     ELSE [st EXCEPT !.sources = @ \ {x.src : x \in e},
                     !.active = @ \ e]

\* stopClip(id): the teardown timeout of the entry is cleared, the source is
\* stopped, the nodes released, the entry deleted
stopClip(st, id) ==
  LET e == {x \in st.active : x.id = id}
  IN IF e = {} THEN st
     ELSE [st EXCEPT !.timers = {t \in @ : t.src \notin {x.src : x \in e}},
                     !.sources = @ \ {x.src : x \in e},
                     !.active = @ \ e]

\* for (const id of ids) stopClip(id)
RECURSIVE stopEach(_, _)
stopEach(st, ids) ==
  IF ids = {} THEN st
  ELSE LET id == CHOOSE i \in ids : TRUE
       IN stopEach(stopClip(st, id), ids \ {id})

\* a stopAll that returns after the first handle
stopAll_FirstOnly(st) ==
  IF st.active = {} THEN st
  ELSE stopClip(st, CHOOSE i \in ActiveIds(st) : TRUE)

stopAll(st) == stopEach(st, ActiveIds(st))

\* sessionRef.current += 1; stopAll(), with a record of what the stop did
bumpAndStop(st) ==
  LET st1 == stopAll([st EXCEPT !.session = @ + 1])
  IN [st1 EXCEPT !.lastStop = [session |-> st1.session,
                               before |-> Cardinality(st.active),
                               left |-> st1.active]]

\* the then-callback of startClip without its session guard
startContinuation_NoToken(st, k) ==
  LET clip == k.clip
      startTL == Max(k.timelineNow, clip.startTime)
      endTL == clipEnd(clip)
      offset == bufferOffsetFor(clip, startTL)
      maxPlayable == Max(0, k.bufferDuration - offset)
      dur == Min(endTL - startTL, maxPlayable)
      endsAtCtx == (startTL - k.timelineNow) + dur
      teardownAfter == Max(0, endsAtCtx - TEARDOWN_SLACK)
      src == [id |-> clip.id, timelineNow |-> k.timelineNow,
              session |-> k.sessionAtStart, endsAt |-> startTL + dur]
      entry == [id |-> clip.id, src |-> src, startTL |-> startTL, offset |-> offset,
                dur |-> dur, endsAtTimeline |-> startTL + dur,
                startTime |-> clip.startTime, endTime |-> clip.endTime,
                trimStart |-> clip.trimStart, trimEnd |-> clip.trimEnd,
                url |-> clip.url]
  IN IF ~st.playingRef THEN st
     ELSE IF dur <= 0 THEN st
     ELSE [st EXCEPT !.active = {x \in @ : x.id # clip.id} \cup {entry},
                     !.sources = @ \cup {src},
                     !.timers = @ \cup {[src |-> src, due |-> dur + TEARDOWN_DELAY,
                                          left |-> teardownAfter]}]

\* the then-callback of startClip: runs when getBuffer(clip.url) resolves
startContinuation(st, k) ==
  LET clip == k.clip
      startTL == Max(k.timelineNow, clip.startTime)
      endTL == clipEnd(clip)
      offset == bufferOffsetFor(clip, startTL)
      maxPlayable == Max(0, k.bufferDuration - offset)
      dur == Min(endTL - startTL, maxPlayable)
      endsAtCtx == (startTL - k.timelineNow) + dur
      teardownAfter == Max(0, endsAtCtx - TEARDOWN_SLACK)
      src == [id |-> clip.id, timelineNow |-> k.timelineNow,
              session |-> k.sessionAtStart, endsAt |-> startTL + dur]
      entry == [id |-> clip.id, src |-> src, startTL |-> startTL, offset |-> offset,
                dur |-> dur, endsAtTimeline |-> startTL + dur,
                startTime |-> clip.startTime, endTime |-> clip.endTime,
                trimStart |-> clip.trimStart, trimEnd |-> clip.trimEnd,
                url |-> clip.url]
  IN IF ~st.playingRef \/ st.session # k.sessionAtStart THEN st
     ELSE IF dur <= 0 THEN st
     ELSE [st EXCEPT !.active = {x \in @ : x.id # clip.id} \cup {entry},
                     !.sources = @ \cup {src},
                     !.timers = @ \cup {[src |-> src, due |-> dur + TEARDOWN_DELAY,
                                          left |-> teardownAfter]}]

\* what runs when the promise of a getBuffer call resolves
resume(st, k) == IF k.kind = "start" THEN startContinuation(st, k) ELSE st

\* a promise-memoizing getBuffer that fetches again once the cached promise
\* has rejected
getBufferMemo_RefetchRejected(st, url, k) ==
  IF url \notin DOMAIN st.promises
    THEN [st EXCEPT !.promises = @ @@ (url :> [state |-> "pending", fetches |-> 1]),
                    !.calls = @ \cup {k}]
  ELSE IF st.promises[url].state = "pending" THEN [st EXCEPT !.calls = @ \cup {k}]
  ELSE IF st.promises[url].state = "resolved" THEN resume(st, k)
  ELSE [st EXCEPT !.promises[url] = [state |-> "pending", fetches |-> @.fetches + 1],
                  !.calls = @ \cup {k}]

\* getBuffer of part_001 followed by the caller's then-callback k: the first
\* call for a url starts the fetch and stores its promise; every later call
\* gets that promise, whatever has become of it
getBufferMemo(st, url, k) ==
  IF url \notin DOMAIN st.promises
    THEN [st EXCEPT !.promises = @ @@ (url :> [state |-> "pending", fetches |-> 1]),
                    !.calls = @ \cup {k}]
  ELSE IF st.promises[url].state = "pending" THEN [st EXCEPT !.calls = @ \cup {k}]
  ELSE IF st.promises[url].state = "resolved" THEN resume(st, k)
  ELSE st

\* getBuffer(url) followed by the caller's then-callback k: a cached url
\* resolves at once, any other call starts a fetch of its own. A player that
\* carries the promises of part_001 uses the getBuffer of part_001.
getBuffer(st, url, k) ==
  IF "promises" \in DOMAIN st THEN getBufferMemo(st, url, k)
  ELSE IF url \in st.cache THEN resume(st, k)
  ELSE [st EXCEPT !.calls = @ \cup {k}]

Call(kind, clip, timelineNow, sessionAtStart) ==
  [kind |-> kind, url |-> clip.url, clip |-> clip, bufferDuration |-> clip.duration,
   timelineNow |-> timelineNow, sessionAtStart |-> sessionAtStart]

startClip(st, clip, timelineNow, sessionAtStart) ==
  IF clip.id \in ActiveIds(st) THEN st
  ELSE IF clipEnd(clip) <= Max(timelineNow, clip.startTime) THEN st
  ELSE getBuffer(st, clip.url, Call("start", clip, timelineNow, sessionAtStart))

\* the prefetch effect: getBuffer(c.url) for every audio clip
RECURSIVE prefetchEffect(_, _)
prefetchEffect(st, list) ==
  IF list = <<>> THEN st
  ELSE prefetchEffect(
         IF IsAudio(Head(list))
           THEN getBuffer(st, Head(list).url, Call("prefetch", Head(list), 0, 0))
           ELSE st,
         Tail(list))

\* a play/pause effect that renews the token only when it stops
playPauseEffect_BumpOnPause(st, playing) ==
  LET st1 == [st EXCEPT !.playingRef = playing]
  IN IF playing THEN st1 ELSE bumpAndStop(st1)

\* a play/pause effect that renews the token on pause but stops nothing
playPauseEffect_PauseKeepsHandles(st, playing) ==
  [st EXCEPT !.playingRef = playing, !.session = @ + 1]

\* the play/pause effect
playPauseEffect(st, playing) ==
  LET st1 == [st EXCEPT !.playingRef = playing]
  IN IF playing THEN [st1 EXCEPT !.session = @ + 1] ELSE bumpAndStop(st1)

\* the discrete-seek effect
seekEffect(st, seek) ==
  IF seek # st.lastSeek
    THEN bumpAndStop([st EXCEPT !.lastSeek = seek])
    ELSE st

SnapshotDiffers(e, clip) ==
  \/ e.startTime # clip.startTime
  \/ e.endTime # clip.endTime
  \/ e.trimStart # clip.trimStart
  \/ e.trimEnd # clip.trimEnd
  \/ e.url # clip.url

\* a scheduler loop that leaves a handle alone whatever its snapshot says
RECURSIVE scheduleEach_KeepsStale(_, _, _, _)
scheduleEach_KeepsStale(st, wanted, t, sessionAtTick) ==
  IF wanted = <<>> THEN st
  ELSE LET clip == Head(wanted)
           st2 == IF /\ clip.id \notin ActiveIds(st)
                     /\ (inWindow(clip, t) \/ inWindow(clip, t + WINDOW_SLACK))
                    THEN startClip(st, clip, t, sessionAtTick) ELSE st
       IN scheduleEach_KeepsStale(st2, Tail(wanted), t, sessionAtTick)

\* the loop of the main scheduler effect over activeAudioClips
RECURSIVE scheduleEach(_, _, _, _)
scheduleEach(st, wanted, t, sessionAtTick) ==
  IF wanted = <<>> THEN st
  ELSE LET clip == Head(wanted)
           st1 == IF \E e \in st.active : e.id = clip.id /\ SnapshotDiffers(e, clip)
                    THEN stopClip(st, clip.id) ELSE st
           st2 == IF /\ clip.id \notin ActiveIds(st1)
                     /\ (inWindow(clip, t) \/ inWindow(clip, t + WINDOW_SLACK))
                    THEN startClip(st1, clip, t, sessionAtTick) ELSE st1
       IN scheduleEach(st2, Tail(wanted), t, sessionAtTick)

\* a scheduler effect without its closing sweep over the active map
schedulerEffect_NoSweep(st, playing, t, wanted) ==
  IF ~playing THEN st
  ELSE scheduleEach(st, wanted, t, st.session)

\* the main scheduler effect
schedulerEffect(st, playing, t, wanted) ==
  IF ~playing THEN st
  ELSE LET st1 == scheduleEach(st, wanted, t, st.session)
           wantedIds == {wanted[i].id : i \in 1..Len(wanted)}
       IN stopEach(st1, ActiveIds(st1) \ wantedIds)

----------------------------------------------------------------------------
(* What index.js hands to the AudioPlayer *)

\* totalDuration: the end of the last visual clip
TotalDuration(list) ==
  LET v == SelectSeq(list, IsVisual)
      ends == [i \in 1..Len(v) |-> v[i].endTime]
  IN IF v = <<>> THEN 0 ELSE SeqMax(Tail(ends), Head(ends))

\* .sort((a, b) => (a.track ?? 0) - (b.track ?? 0)): stable, ascending
RECURSIVE InsertByTrack(_, _)
InsertByTrack(sorted, c) ==
  IF sorted = <<>> THEN <<c>>
  ELSE IF c.track < Head(sorted).track
    THEN <<c>> \o sorted
    ELSE <<Head(sorted)>> \o InsertByTrack(Tail(sorted), c)

RECURSIVE SortByTrack(_)
SortByTrack(s) ==
  IF s = <<>> THEN <<>>
  ELSE InsertByTrack(SortByTrack(SubSeq(s, 1, Len(s) - 1)), s[Len(s)])

activeAudioClips(list, t) ==
  SortByTrack(SelectSeq(list, LAMBDA c :
    /\ IsAudio(c)
    /\ t >= c.startTime
    /\ t < Min(c.endTime, TotalDuration(list))))

\* the effects of the AudioPlayer after a render in which the transport went
\* from (playing0, t0) to (playing1, t1) and seekAudio became seek1
runEffects(st, playing0, playing1, seek1, t0, t1) ==
  LET a == IF playing1 # playing0 THEN playPauseEffect(st, playing1) ELSE st
      b == seekEffect(a, seek1)
  IN IF playing1 # playing0 \/ t1 # t0
       THEN schedulerEffect(b, playing1, t1, activeAudioClips(clips, t1))
       ELSE b

----------------------------------------------------------------------------
(* The AudioPlayer under a transport: a timeline that holds a video and two *)
(* audio clips, either overlapping clips of two files or the two halves of  *)
(* a split file                                                             *)

MaxCalls == 3        \* getBuffer calls in flight at once

VideoTimes == {0, 175, 250, 400}         \* media times the video element reports
SeekTimes == {0, 175}                    \* where the user clicks on the ruler
END_EPSILON == 50                        \* 0.05 s

SchedVideo ==
  [id |-> 1, type |-> "video", url |-> 1, duration |-> 400, startTime |-> 0,
   endTime |-> 400, trimStart |-> 0, trimEnd |-> 0, track |-> 0]

SchedClipLists ==
  { <<SchedVideo,
      [id |-> 2, type |-> "audio", url |-> 10, duration |-> 200, startTime |-> 0,
       endTime |-> 200, trimStart |-> 0, trimEnd |-> 0, track |-> 0],
      [id |-> 3, type |-> "audio", url |-> 11, duration |-> 250, startTime |-> 150,
       endTime |-> 350, trimStart |-> 50, trimEnd |-> 0, track |-> 1]>>,
    <<SchedVideo,
      [id |-> 2, type |-> "audio", url |-> 10, duration |-> 400, startTime |-> 0,
       endTime |-> 200, trimStart |-> 0, trimEnd |-> 200, track |-> 0],
      [id |-> 3, type |-> "audio", url |-> 10, duration |-> 400, startTime |-> 200,
       endTime |-> 400, trimStart |-> 200, trimEnd |-> 0, track |-> 0]>> }

\* the player after the effects of the mount: the play/pause effect has bumped
\* the token and stopped, the prefetch effect has asked for every audio file
MountedPlayer(list) ==
  prefetchEffect(
    [session |-> 1, playingRef |-> FALSE, lastSeek |-> 0, active |-> {}, calls |-> {},
     cache |-> {}, sources |-> {},
     lastStop |-> [session |-> 1, before |-> 0, left |-> {}], timers |-> {}],
    list)

SchedInitBase(lists) ==
  /\ clips \in lists
  /\ selectedClipId = 1
  /\ drag = NoDrag
  /\ pendingUpload = <<>>
  /\ nextId = 4
  /\ nOps = 0
  /\ lastOp = "mount"
  /\ FnIdle
  /\ isPlaying = FALSE
  /\ currentTime = 0
  /\ seekAudio = 0
  /\ enteredImageRef = FALSE
  /\ lastVisualIdRef = 0
  /\ mounted = TRUE
  /\ sessionRef = MountedPlayer(clips).session
  /\ isPlayingRef = MountedPlayer(clips).playingRef
  /\ lastSeekRef = MountedPlayer(clips).lastSeek
  /\ active = MountedPlayer(clips).active
  /\ calls = MountedPlayer(clips).calls
  /\ cache = MountedPlayer(clips).cache
  /\ sources = MountedPlayer(clips).sources
  /\ lastStop = MountedPlayer(clips).lastStop
  /\ timers = MountedPlayer(clips).timers
  /\ lastCall = NoCall
  /\ WaveInit
  /\ undoStackRef = <<>>
  /\ redoStackRef = <<>>

\* the page with the AudioPlayer of components/AudioPlayer.js, which keeps no
\* promises
SchedInitOf(lists) == SchedInitBase(lists) /\ promises = <<>> /\ ContextInit

SchedInit == SchedInitOf(SchedClipLists)

\* a render of index.js with a new transport, then the effects of the player
Render(op, playing1, t1, seek1) ==
  LET st == runEffects(Player, isPlaying, playing1, seek1, currentTime, t1)
  IN /\ st.session <= MaxSession
     /\ Cardinality(st.calls) <= MaxCalls
     /\ isPlaying' = playing1
     /\ currentTime' = t1
     /\ seekAudio' = seek1
     /\ UNCHANGED <<enteredImageRef, lastVisualIdRef>>
     /\ SetPlayer(st)
     /\ lastCall' = NoCall
     /\ lastOp' = op
     /\ UNCHANGED <<storeVars, fnVars, historyVars, memoVars, contextVars, waveVars, mounted>>

\* index.js handlePlayPause
HandlePlayPause ==
  /\ mounted
  /\ Render("playPause", ~isPlaying, currentTime, seekAudio)

\* index.js handleTimeUpdate, with handleClipEnd at the end of the video
HandleTimeUpdate ==
  /\ mounted
  /\ isPlaying
  /\ \E timeSec \in VideoTimes :
       LET currentClip == clips[1]
           relativeTime == Max(0, timeSec - currentClip.trimStart)
           globalTime == currentClip.startTime + relativeTime
       IN IF globalTime < currentClip.endTime - END_EPSILON
            THEN Render("timeUpdate", TRUE, globalTime, seekAudio)
            ELSE Render("clipEnd", FALSE, currentClip.endTime, seekAudio)

\* index.js handleSeek on the ruler (clipId = null): the target is a video
HandleSeek ==
  /\ mounted
  /\ seekAudio < MaxSeeks
  /\ \E time \in SeekTimes :
       LET clamped == Max(0, Min(time, TotalDuration(clips) - EPS))
       IN Render("seek", isPlaying, clamped, seekAudio + 1)

\* the stopAll() of the imperative handle
ImperativeStopAll ==
  /\ mounted
  /\ sessionRef < MaxSession
  /\ SetPlayer(bumpAndStop(Player))
  /\ lastCall' = NoCall
  /\ lastOp' = "stopAll"
  /\ UNCHANGED <<storeVars, fnVars, historyVars, memoVars, contextVars, waveVars, transportVars, mounted>>

\* the cleanup of the unmount
Unmount ==
  /\ mounted
  /\ sessionRef < MaxSession
  /\ mounted' = FALSE
  /\ SetPlayer(bumpAndStop(Player))
  /\ lastCall' = NoCall
  /\ lastOp' = "unmount"
  /\ UNCHANGED <<storeVars, fnVars, historyVars, memoVars, contextVars, waveVars, transportVars>>

\* a rejection that takes the other pending calls down with it
BufferFailed_DropsAll ==
  \E k \in calls :
    /\ calls' = {}
    /\ lastCall' = k
    /\ lastOp' = "decodeFailed"
    /\ UNCHANGED <<storeVars, fnVars, historyVars, memoVars, contextVars, waveVars, transportVars, mounted, sessionRef, isPlayingRef,
                   lastSeekRef, active, cache, sources, lastStop, timers>>

\* getBuffer: the fetch or the decode fails and the promise rejects
BufferFailed ==
  \E k \in calls :
    /\ calls' = calls \ {k}
    /\ lastCall' = k
    /\ lastOp' = "decodeFailed"
    /\ UNCHANGED <<storeVars, fnVars, historyVars, memoVars, contextVars, waveVars, transportVars, mounted, sessionRef, isPlayingRef,
                   lastSeekRef, active, cache, sources, lastStop, timers>>

\* getBuffer: the response has arrived and decodeAudioData has succeeded; the
\* buffer is cached and the awaiting then-callback runs
BufferDecoded ==
  \E k \in calls :
    /\ SetPlayer(resume([Player EXCEPT !.calls = @ \ {k}, !.cache = @ \cup {k.url}], k))
    /\ lastCall' = k
    /\ lastOp' = "decodeOk"
    /\ UNCHANGED <<storeVars, fnVars, historyVars, memoVars, contextVars, waveVars, transportVars, mounted>>

\* a source plays to its end: its onended handler deletes the entry of its clip
SourceEnded ==
  \E src \in sources :
    /\ isPlaying
    /\ currentTime >= src.endsAt
    /\ sources' = sources \ {src}
    /\ active' = {e \in active : e.id # src.id}
    /\ lastCall' = NoCall
    /\ lastOp' = "ended"
    /\ UNCHANGED <<storeVars, fnVars, historyVars, memoVars, contextVars, waveVars, transportVars, mounted, sessionRef, isPlayingRef,
                   lastSeekRef, calls, cache, lastStop, timers>>

\* the earliest pending timeout, as time from now
NextDue == CHOOSE d \in {t.due : t \in {x \in timers : x.due > 0}} :
             \A t \in timers : t.due > 0 => d <= t.due

\* time passes until the next timeout is due; the clock of the audio context
\* runs with it unless the context is suspended
ClockAdvance ==
  /\ \E t \in timers : t.due > 0
  /\ timers' = {[t EXCEPT !.due = Max(0, @ - NextDue),
                          !.left = IF isPlayingRef THEN Max(0, @ - NextDue) ELSE @] :
                  t \in timers}
  /\ lastCall' = NoCall
  /\ lastOp' = "clock"
  /\ UNCHANGED <<storeVars, fnVars, historyVars, memoVars, contextVars, waveVars, transportVars, mounted, sessionRef, isPlayingRef,
                 lastSeekRef, active, calls, cache, sources, lastStop>>

\* a teardown that always finds the end of its source still ahead
teardown_NeverDue(st, t) ==
  LET cur == {e \in st.active : e.id = t.src.id}
      rest == st.timers \ {t}
  IN IF cur = {} THEN [st EXCEPT !.timers = rest]
     ELSE [st EXCEPT !.timers = rest \cup {[t EXCEPT !.due = TEARDOWN_RETRY]}]

\* teardown, the callback of a timeout that is due, for the clip of source src
teardown(st, t) ==
  LET cur == {e \in st.active : e.id = t.src.id}
      rest == st.timers \ {t}
  IN IF cur = {} THEN [st EXCEPT !.timers = rest]
     ELSE IF t.left = 0
       THEN [st EXCEPT !.timers = rest,
                       !.sources = @ \ {e.src : e \in cur},
                       !.active = @ \ cur]
       ELSE [st EXCEPT !.timers = rest \cup {[t EXCEPT !.due = TEARDOWN_RETRY]}]

TimerFires ==
  /\ \E t \in timers :
       /\ t.due = 0
       /\ SetPlayer(teardown(Player, t))
       /\ lastCall' = [kind |-> "teardown", src |-> t.src,
                       removed |-> active \ teardown(Player, t).active]
  /\ lastOp' = "teardown"
  /\ UNCHANGED <<storeVars, fnVars, historyVars, memoVars, contextVars, waveVars, transportVars, mounted>>

NextSched ==
  \/ HandlePlayPause
  \/ HandleTimeUpdate
  \/ HandleSeek
  \/ ImperativeStopAll
  \/ Unmount
  \/ BufferFailed
  \/ BufferDecoded
  \/ SourceEnded

SpecSched == SchedInit /\ [][NextSched]_vars

\* the scheduler with time passing on the clocks of the timeouts and of the
\* audio context: playback, ticks, decodes, sources that end or fail to
WatchdogClipLists ==
  { <<SchedVideo,
      [id |-> 2, type |-> "audio", url |-> 10, duration |-> 200, startTime |-> 0,
       endTime |-> 200, trimStart |-> 0, trimEnd |-> 0, track |-> 0]>> }

NextWatchdog ==
  \/ ClockAdvance
  \/ TimerFires
  \/ HandlePlayPause
  \/ HandleTimeUpdate
  \/ BufferDecoded
  \/ SourceEnded

SpecWatchdog == SchedInitOf(WatchdogClipLists) /\ [][NextWatchdog]_vars

\* timeouts that are due run, and time passes; nothing else is promised
SpecWatchdogLive == SpecWatchdog /\ WF_vars(ClockAdvance) /\ WF_vars(TimerFires)

\* C19: every handle put into the active map is eventually out of it again,
\* with no fairness asked of ended notifications, ticks, stops or seeks: only
\* time passes and the timeouts that are due run.
C19_WatchdogRemovesHandle ==
  \A id \in {c.id : c \in {x \in UNION {Range(l) : l \in WatchdogClipLists} : IsAudio(x)}} :
    (\E e \in active : e.id = id) ~> ~(\E e \in active : e.id = id)

\* the timeout of a handle has just removed it while playback goes on
C19_Witness ==
  /\ lastCall.kind = "teardown"
  /\ isPlaying
  /\ lastCall.removed # {}
  /\ \A e \in lastCall.removed : e.src = lastCall.src

----------------------------------------------------------------------------
(* Scheduler contracts *)

\* the step resumed a startClip whose token is no longer the current one
ResumedStale ==
  /\ lastOp' = "decodeOk"
  /\ lastCall'.kind = "start"
  /\ lastCall'.sessionAtStart # sessionRef

\* C5: when the session token was bumped between a startClip and the moment
\* its decode resolves, the continuation adds no entry to the active map and
\* starts no buffer source.
C5_StaleSessionGuarantee ==
  [][ResumedStale => (active' = active /\ sources' = sources)]_vars

\* a stale continuation has run while the player was playing, so that only the
\* token comparison held it back
C5_Witness ==
  /\ lastOp = "decodeOk"
  /\ lastCall.kind = "start"
  /\ lastCall.sessionAtStart < sessionRef
  /\ isPlayingRef
  /\ lastCall.clip.id \notin {e.id : e \in active}

\* C6: a bump-and-stopAll leaves the active map empty when it returns, and no
\* entry of the map stems from a startClip issued before the last such stop:
\* the decodes in flight at the stop add nothing when they resolve.
C6_StopAllLeavesEmpty ==
  /\ lastStop.left = {}
  /\ \A e \in active : e.src.session >= lastStop.session

\* a stop has silenced two clips and a decode in flight at that stop has
\* resolved since
C6_Witness ==
  /\ lastStop.before = 2
  /\ lastOp = "decodeOk"
  /\ lastCall.kind = "start"
  /\ lastCall.sessionAtStart < lastStop.session
  /\ active = {}

C7_ConcurrentRequestsDeduplicated ==
  \A k1, k2 \in calls : k1.url = k2.url => k1 = k2

----------------------------------------------------------------------------
(* The decoded-buffer caches over a long session:                           *)
(* components/AudioClipWaveform.js bufferCache, components/AudioPlayer.js   *)
(* cache                                                                    *)

MaxUrls == 52        \* audio files uploaded in one session
MaxRenders == 2      \* renderWave calls in flight at once

WAVE_CACHE_LIMIT == 50

\* the waveforms that are drawn again while the session goes on, and the file
\* whose fetch may fail
RedrawnUrls == {2, 3}
FlakyUrls == {3}

CacheKeys(bc) == {bc[i].key : i \in 1..Len(bc)}

\* bufferCache.set(audioUrl, cached) that deletes the newest key over the limit
bufferCacheSet_DeleteNewest(bc, audioUrl, tick) ==
  LET after == IF audioUrl \in CacheKeys(bc) THEN bc
               ELSE Append(bc, [key |-> audioUrl, at |-> tick])
  IN IF Len(after) > WAVE_CACHE_LIMIT THEN SubSeq(after, 1, Len(after) - 1) ELSE after

\* bufferCache.set(audioUrl, cached); if (bufferCache.size > 50) delete the
\* first key.  A Map keeps a key that is set again at its place.
bufferCacheSet(bc, audioUrl, tick) ==
  LET after == IF audioUrl \in CacheKeys(bc) THEN bc
               ELSE Append(bc, [key |-> audioUrl, at |-> tick])
  IN IF Len(after) > WAVE_CACHE_LIMIT THEN Tail(after) ELSE after

\* the entries a set of audioUrl at the given tick has deleted
Deleted(before, after, audioUrl, tick) ==
  LET held == IF audioUrl \in CacheKeys(before) THEN Range(before)
              ELSE Range(before) \cup {[key |-> audioUrl, at |-> tick]}
  IN {e \in held : e \notin Range(after)}

\* renderWave up to its first await: a hit draws at once, a miss fetches
renderWave(audioUrl) ==
  IF audioUrl \in CacheKeys(bufferCache)
    THEN /\ lastRead' = audioUrl
         /\ UNCHANGED renders
    ELSE /\ Cardinality(renders) < MaxRenders
         /\ renders' = renders \cup
              {[url |-> audioUrl,
                n |-> CHOOSE n \in 1..MaxRenders : \A r \in renders : r.n # n]}
         /\ UNCHANGED lastRead

\* an audio clip of a file not seen before is rendered: its AudioClipWaveform
\* mounts and draws, the prefetch effect of the AudioPlayer asks for its
\* buffer (the files of the other clips are cached).  The next file follows
\* once this one has been decoded by the player and drawn as a waveform.
ClipRendered ==
  /\ nextUrl <= MaxUrls + 1
  /\ calls = {}
  /\ \A r \in renders : r.url \in RedrawnUrls /\ r.url # nextUrl - 1
  /\ \E duration \in MediaDurations :
       SetPlayer(prefetchEffect(Player, <<NewClip(<<>>, nextUrl, "audio", duration)>>))
  /\ renderWave(nextUrl)
  /\ nextUrl' = nextUrl + 1
  /\ lastCall' = NoCall
  /\ lastOp' = "clipRendered"
  /\ UNCHANGED <<storeVars, fnVars, historyVars, memoVars, contextVars, transportVars, mounted, bufferCache, waveTick,
                 lastEvicted>>

\* a waveform is drawn again (its width, progress or selection changed)
WaveRedrawn ==
  /\ \E u \in RedrawnUrls :
       /\ u < nextUrl
       /\ renderWave(u)
  /\ lastOp' = "waveRedrawn"
  /\ UNCHANGED <<storeVars, fnVars, historyVars, memoVars, contextVars, transportVars, playerVars, bufferCache, waveTick,
                 lastEvicted, nextUrl>>

\* renderWave after its awaits: the decoded buffer is cached, the cache trimmed
WaveDecoded ==
  \E r \in renders :
    LET after == bufferCacheSet(bufferCache, r.url, waveTick + 1)
        gone == Deleted(bufferCache, after, r.url, waveTick + 1)
    IN /\ bufferCache' = after
       /\ waveTick' = IF r.url \in CacheKeys(bufferCache) THEN waveTick ELSE waveTick + 1
       /\ lastEvicted' = IF gone = {} THEN lastEvicted ELSE CHOOSE e \in gone : TRUE
       /\ renders' = renders \ {r}
       /\ lastOp' = "waveDecoded"
       /\ UNCHANGED <<storeVars, fnVars, historyVars, memoVars, contextVars, transportVars, playerVars, lastRead, nextUrl>>

\* renderWave: the fetch or the decode throws
WaveFailed ==
  \E r \in renders :
    /\ r.url \in FlakyUrls
    /\ renders' = renders \ {r}
    /\ lastOp' = "waveFailed"
    /\ UNCHANGED <<storeVars, fnVars, historyVars, memoVars, contextVars, transportVars, playerVars, bufferCache, waveTick,
                   lastEvicted, lastRead, nextUrl>>

NextCache ==
  \/ ClipRendered
  \/ WaveRedrawn
  \/ WaveDecoded
  \/ WaveFailed
  \/ BufferDecoded

SpecCache == Init /\ [][NextCache]_vars

----------------------------------------------------------------------------
(* startClip as a function of a clip, the timeline time and the length of   *)
(* the decoded file, the player playing with nothing active                 *)

\* the player after handlePlayPause has started playback on an empty timeline
StartInit ==
  /\ StoreInit
  /\ lastOp = "init"
  /\ FnIdle
  /\ WaveInit
  /\ undoStackRef = <<>>
  /\ redoStackRef = <<>>
  /\ promises = <<>>
  /\ ContextInit
  /\ isPlaying = TRUE
  /\ currentTime = 0
  /\ seekAudio = 0
  /\ enteredImageRef = FALSE
  /\ lastVisualIdRef = 0
  /\ mounted = TRUE
  /\ sessionRef = 2
  /\ isPlayingRef = TRUE
  /\ lastSeekRef = 0
  /\ active = {}
  /\ calls = {}
  /\ cache = {}
  /\ sources = {}
  /\ lastCall = NoCall
  /\ lastStop = [session |-> 1, before |-> 0, left |-> {}]
  /\ timers = {}

\* the clip as it is, or its first part after a split 75 ms from its start
\* whose left trim handle has then been dragged by deltaTime
StartClips(c) ==
  {c} \cup
  { LET parts == handleSplitAudio(<<c>>, c.id, c.startTime + SPLIT_EPS + Step,
                                  c.id + 10, c.id + 20)
        first == parts[1]
        snapshot == [type |-> "trim-left", clipId |-> first.id,
                     startTime |-> first.startTime, endTime |-> first.endTime,
                     trimStart |-> first.trimStart, trimEnd |-> first.trimEnd]
    IN handleMouseMove(parts, snapshot, deltaTime)[1] : deltaTime \in Deltas }

\* timeline times around the window of a clip
StartTimes(c) ==
  {t \in {c.startTime - Step, c.startTime, c.startTime + Step, c.startTime + 2 * Step,
          c.endTime - Step, c.endTime - WINDOW_SLACK, c.endTime, c.endTime + Step} :
     t >= 0}

\* the scheduler starts the last clip of the list; the decoded file is as long
\* as the clip says or ends shortly after its trimStart
ApplyStart ==
  /\ fnOut = <<>>
  /\ fnIn # <<>>
  /\ IsAudio(fnIn[Len(fnIn)])
  /\ \E clip \in StartClips(fnIn[Len(fnIn)]) :
       \E timelineNow \in StartTimes(clip) :
         \E bufferDuration \in {clip.duration, Max(0, clip.trimStart) + Step} :
           LET st1 == startClip(Player, clip, timelineNow, sessionRef)
               st2 == IF st1.calls = {} THEN st1
                      ELSE LET k == CHOOSE k \in st1.calls : TRUE
                           IN resume([st1 EXCEPT !.calls = {}, !.cache = {clip.url}],
                                     [k EXCEPT !.bufferDuration = bufferDuration])
           IN /\ SetPlayer(st2)
              /\ fnArgs' = [op |-> "start", clip |-> clip, timelineNow |-> timelineNow,
                            bufferDuration |-> bufferDuration]
  /\ fnOut' = <<fnIn>>
  /\ lastCall' = NoCall
  /\ lastOp' = "start"
  /\ UNCHANGED <<fnIn, storeVars, historyVars, memoVars, contextVars, transportVars, waveVars, mounted>>

\* stopClip(id) for the clip that was started or for another id, and then
\* once more for the same id
ApplyStop ==
  /\ fnArgs.op = "start" \/ (fnArgs.op = "stop" /\ fnArgs.n < 2)
  /\ \E id \in {fnArgs.clip.id, fnArgs.clip.id + 1} :
       /\ fnArgs.op = "stop" => id = fnArgs.id
       /\ SetPlayer(stopClip(Player, id))
       /\ fnArgs' = [op |-> "stop", clip |-> fnArgs.clip, id |-> id,
                     n |-> IF fnArgs.op = "stop" THEN 2 ELSE 1,
                     had |-> IF fnArgs.op = "stop" THEN fnArgs.had
                             ELSE id \in ActiveIds(Player)]
  /\ lastCall' = NoCall
  /\ lastOp' = "stop"
  /\ UNCHANGED <<fnIn, fnOut, storeVars, historyVars, memoVars, contextVars, transportVars, waveVars, mounted>>

NextStart ==
  \/ FnExtend
  \/ ApplyStart
  \/ ApplyStop

SpecStart == StartInit /\ [][NextStart]_vars

\* what a start must have left in the active map and among the sources:
\* nothing when playDuration <= 0, else one entry and one source with the
\* given offset and duration at the given schedule time
Started(scheduleTime, assetOffset, playDuration) ==
  IF playDuration <= 0
    THEN active = {} /\ sources = {}
    ELSE /\ Cardinality(active) = 1 /\ Cardinality(sources) = 1
         /\ \A e \in active :
              /\ e.id = fnArgs.clip.id
              /\ e.startTL = scheduleTime
              /\ e.offset = assetOffset
              /\ e.dur = playDuration
              /\ e.endsAtTimeline = scheduleTime + playDuration

\* C17: with scheduleTime = max(currentTime, startTime) the source
\* starts at assetOffset = trimStart + (scheduleTime - startTime) for
\* playDuration = min(endTime - scheduleTime, assetDuration - assetOffset),
\* and no source starts when playDuration <= 0.
C17_StartOffsets ==
  fnArgs.op = "start" =>
    LET c == fnArgs.clip
        scheduleTime == Max(fnArgs.timelineNow, c.startTime)
        assetOffset == c.trimStart + (scheduleTime - c.startTime)
        playDuration == Min(c.endTime - scheduleTime, fnArgs.bufferDuration - assetOffset)
    IN Started(scheduleTime, assetOffset, playDuration)

----------------------------------------------------------------------------
(* fetchAudioArrayBufferWithFallback: one fetch awaited at a time; fnArgs   *)
(* is the call in progress, fnOut the fetches it has awaited so far         *)

FetchUrls == {2, 3, 4}         \* object URLs of uploads and absolute asset URLs
Transports == <<"direct", "s3", "proxy">>
\* how an awaited fetch settles: resp.ok with a body, resp.ok whose
\* arrayBuffer() rejects, a 4xx/5xx response, a rejected fetch
FetchOutcomes == {"ok", "body", "status", "throws"}
NoPath == [via |-> "none"]

\* new URL(url) parses object URLs and absolute URLs only
toS3ProxyPath(url) ==
  IF url \in FetchUrls THEN [via |-> "s3", url |-> url] ELSE NoPath

\* the call after the fetch it awaits has settled, were a failed same-origin
\* fetch to end the chain
fetchAudioArrayBufferWithFallback_ThrowAfterS3(call, outcome) ==
  IF outcome = "ok"
    THEN [call EXCEPT !.pending = "none", !.result = "bytes", !.from = call.pending]
    ELSE IF call.pending = "direct" /\ toS3ProxyPath(call.audioUrl) # NoPath
      THEN [call EXCEPT !.pending = "s3"]
      ELSE [call EXCEPT !.pending = "none", !.result = "error"]

\* the call after the fetch it awaits has settled
fetchAudioArrayBufferWithFallback(call, outcome) ==
  IF outcome = "ok"
    THEN [call EXCEPT !.pending = "none", !.result = "bytes", !.from = call.pending]
    ELSE CASE call.pending = "direct" ->
                IF toS3ProxyPath(call.audioUrl) # NoPath
                  THEN [call EXCEPT !.pending = "s3"]
                  ELSE [call EXCEPT !.pending = "proxy"]
           [] call.pending = "s3" -> [call EXCEPT !.pending = "proxy"]
           [] OTHER -> [call EXCEPT !.pending = "none", !.result = "error"]

FetchInit == FnInit

\* renderWave calls the function for a URL it has no buffer for
FetchBegin ==
  /\ fnArgs.op = "none" \/ (fnArgs.op = "fetch" /\ fnArgs.pending = "none")
  /\ \E audioUrl \in FetchUrls :
       fnArgs' = [op |-> "fetch", audioUrl |-> audioUrl, pending |-> "direct",
                  result |-> "pending", from |-> "none"]
  /\ fnOut' = <<>>
  /\ lastOp' = "fetch"
  /\ UNCHANGED fnIn
  /\ UNCHANGED notFn

\* the awaited fetch settles and the function runs on to its next await
FetchSettled ==
  /\ fnArgs.op = "fetch"
  /\ fnArgs.pending # "none"
  /\ \E outcome \in FetchOutcomes :
       /\ fnArgs' = fetchAudioArrayBufferWithFallback(fnArgs, outcome)
       /\ fnOut' = Append(fnOut, [via |-> fnArgs.pending, url |-> fnArgs.audioUrl,
                                  outcome |-> outcome])
  /\ lastOp' = "settled"
  /\ UNCHANGED fnIn
  /\ UNCHANGED notFn

NextFetch ==
  \/ FetchBegin
  \/ FetchSettled

SpecFetch == FetchInit /\ [][NextFetch]_vars

\* C18: the transports are tried in the order direct URL, same-origin proxy
\* path, server-side proxy endpoint; a transport is tried only after all
\* earlier ones have failed; the first success is returned and nothing is
\* tried after it; the caller gets an error only when the last one has failed.
C18_FallbackChain ==
  fnArgs.op = "fetch" =>
    LET n == Len(fnOut)
    IN /\ n <= 3
       /\ \A i \in 1..n : fnOut[i].via = Transports[i] /\ fnOut[i].url = fnArgs.audioUrl
       /\ \A i \in 1..(n - 1) : fnOut[i].outcome # "ok"
       /\ fnArgs.result = "pending" <=> fnArgs.pending # "none"
       /\ fnArgs.pending # "none" =>
            /\ n < 3 /\ fnArgs.pending = Transports[n + 1]
            /\ \A i \in 1..n : fnOut[i].outcome # "ok"
       /\ fnArgs.result = "bytes" <=> (n >= 1 /\ fnOut[n].outcome = "ok")
       /\ fnArgs.result = "bytes" => fnArgs.from = fnOut[n].via
       /\ fnArgs.result = "error" <=> (n = 3 /\ \A i \in 1..3 : fnOut[i].outcome # "ok")

\* the server-side proxy has answered after the two earlier transports failed
C18_Witness ==
  /\ fnArgs.op = "fetch"
  /\ fnArgs.result = "bytes"
  /\ fnArgs.from = "proxy"
  /\ Len(fnOut) = 3
  /\ fnOut[1].outcome = "throws"
  /\ fnOut[2].outcome = "status"

\* C20: stopClip(id) for an id with no handle changes nothing; after
\* stopClip(id) the handle is out of the active map, its teardown timeout is
\* cancelled and its source released, so that a second stopClip(id) in a row
\* leaves the state of the first.
C20_StopClipIdempotent ==
  [][lastOp' = "stop" =>
      LET id == fnArgs'.id
          e == {x \in active : x.id = id}
      IN /\ (e = {} => UNCHANGED <<sessionRef, isPlayingRef, lastSeekRef, active, calls,
                                    cache, sources, lastStop, timers>>)
         /\ active' = active \ e
         /\ \A x \in e : x.src \notin sources' /\ (\A t \in timers' : t.src # x.src)
         /\ (fnArgs'.n = 2 => e = {})]_vars

\* stopClip has been called twice in a row for a clip that was playing
C20_Witness ==
  /\ fnArgs.op = "stop"
  /\ fnArgs.n = 2
  /\ fnArgs.had
  /\ fnArgs.id = fnArgs.clip.id
  /\ active = {} /\ timers = {} /\ sources = {}

----------------------------------------------------------------------------
(* Scheduler contracts under failing decodes, edits and pauses *)

\* C21: a failed fetch or decode creates no handle and disturbs nothing else:
\* the active map, the sources, the token and every other pending start are
\* as before; and a start of the current session whose decode succeeds while
\* playing does create its handle, whatever has failed before it.
C21_FailureIsolated ==
  [][/\ lastOp' = "decodeFailed" =>
          /\ active' = active /\ sources' = sources /\ timers' = timers
          /\ sessionRef' = sessionRef /\ isPlayingRef' = isPlayingRef
          /\ cache' = cache
          /\ calls' = calls \ {lastCall'}
     /\ (/\ lastOp' = "decodeOk"
         /\ lastCall'.kind = "start"
         /\ isPlayingRef
         /\ sessionRef = lastCall'.sessionAtStart) =>
          \E e \in active' : /\ e.id = lastCall'.clip.id
                              /\ e.src.session = lastCall'.sessionAtStart]_vars

\* both audio clips are wanted; every fetch for the file of clip 2 has failed,
\* and clip 3 has been started all the same
C21_Witness ==
  /\ lastOp = "decodeOk"
  /\ isPlaying
  /\ {c.id : c \in Range(activeAudioClips(clips, currentTime))} = {2, 3}
  /\ lastCall.clip.id = 3
  /\ ActiveIds(Player) = {3}
  /\ clips[2].url \notin cache
  /\ \A k \in calls : k.url # clips[2].url

----------------------------------------------------------------------------
(* The transport of index.js on timelines of visual clips: the rAF tick      *)
(* drives the time over images, the timeupdate events of the video element  *)
(* drive it over videos                                                     *)

MAX_DT == 50                             \* 0.05 s
MaxTransportSession == 6                 \* largest session token of a transport run
FrameTimes == {16, 25, MAX_DT, 80}       \* time between two animation frames
TransportVideoTimes == {0, 100, 160, 200}  \* media times the video element reports
TransportSeekTimes == {0, 50, 100, 199, 200, 250, 300}  \* times a seek asks for

TransportClip(id, type, startTime, endTime) ==
  [id |-> id, type |-> type, url |-> id, duration |-> endTime - startTime,
   startTime |-> startTime, endTime |-> endTime, trimStart |-> 0, trimEnd |-> 0,
   track |-> 0]

TransportClipLists ==
  { <<TransportClip(1, "image", 0, 100), TransportClip(2, "image", 100, 250)>>,
    <<TransportClip(1, "image", 0, 150)>>,
    <<TransportClip(1, "image", 0, 100), TransportClip(2, "image", 100, 200),
      TransportClip(3, "image", 200, 300)>>,
    <<TransportClip(1, "video", 0, 200), TransportClip(2, "image", 200, 300)>>,
    <<TransportClip(1, "image", 0, 100), TransportClip(2, "video", 100, 300)>> }

visualsSorted(list) == SortByStartTime(SelectSeq(list, IsVisual))

\* visuals.find(c => t >= c.startTime - EPS && t < c.endTime - EPS), as the
\* index of the clip found, 0 when there is none
findActiveAt(t, visuals) ==
  LET found == {i \in 1..Len(visuals) :
                  t >= visuals[i].startTime - EPS /\ t < visuals[i].endTime - EPS}
  IN IF found = {} THEN 0
     ELSE CHOOSE i \in found : \A j \in found : i <= j

\* a tick that returns the end of the last image without halting
tick_KeepsPlaying(prev, dt, list, entered, lastId) ==
  LET visuals == visualsSorted(list)
      i == findActiveAt(prev, visuals)
      same == [t |-> prev, playing |-> TRUE, entered |-> entered, lastId |-> lastId]
  IN IF visuals = <<>> THEN same
     ELSE IF i = 0
       THEN [same EXCEPT !.t = TotalDuration(list), !.playing = FALSE]
     ELSE IF visuals[i].type # "image"
       THEN [same EXCEPT !.entered = FALSE, !.lastId = visuals[i].id]
     ELSE IF lastId # visuals[i].id \/ ~entered
       THEN [same EXCEPT !.t = Max(prev, visuals[i].startTime + EPS),
                         !.entered = TRUE, !.lastId = visuals[i].id]
     ELSE IF prev + dt < visuals[i].endTime - EPS
       THEN [same EXCEPT !.t = prev + dt]
     ELSE IF i < Len(visuals)
       THEN [same EXCEPT !.t = IF visuals[i + 1].type = "image"
                                 THEN visuals[i + 1].startTime + EPS
                                 ELSE visuals[i + 1].startTime,
                         !.entered = FALSE, !.lastId = visuals[i + 1].id]
     ELSE [same EXCEPT !.t = visuals[i].endTime]

\* a tick that goes back to the first visual clip when an image ends
tick_LoopsToFirst(prev, dt, list, entered, lastId) ==
  LET visuals == visualsSorted(list)
      i == findActiveAt(prev, visuals)
      same == [t |-> prev, playing |-> TRUE, entered |-> entered, lastId |-> lastId]
  IN IF visuals = <<>> THEN same
     ELSE IF i = 0
       THEN [same EXCEPT !.t = TotalDuration(list), !.playing = FALSE]
     ELSE IF visuals[i].type # "image"
       THEN [same EXCEPT !.entered = FALSE, !.lastId = visuals[i].id]
     ELSE IF lastId # visuals[i].id \/ ~entered
       THEN [same EXCEPT !.t = Max(prev, visuals[i].startTime + EPS),
                         !.entered = TRUE, !.lastId = visuals[i].id]
     ELSE IF prev + dt < visuals[i].endTime - EPS
       THEN [same EXCEPT !.t = prev + dt]
     ELSE IF i < Len(visuals)
       THEN [same EXCEPT !.t = visuals[1].startTime + EPS,
                         !.entered = FALSE, !.lastId = visuals[1].id]
     ELSE [same EXCEPT !.t = visuals[i].endTime, !.playing = FALSE]

\* the updater the rAF tick passes to setCurrentTime, with what it does to
\* isPlaying and to the two refs
tick(prev, dt, list, entered, lastId) ==
  LET visuals == visualsSorted(list)
      i == findActiveAt(prev, visuals)
      same == [t |-> prev, playing |-> TRUE, entered |-> entered, lastId |-> lastId]
  IN IF visuals = <<>> THEN same
     ELSE IF i = 0
       THEN [same EXCEPT !.t = TotalDuration(list), !.playing = FALSE]
     ELSE IF visuals[i].type # "image"
       THEN [same EXCEPT !.entered = FALSE, !.lastId = visuals[i].id]
     ELSE IF lastId # visuals[i].id \/ ~entered
       THEN [same EXCEPT !.t = Max(prev, visuals[i].startTime + EPS),
                         !.entered = TRUE, !.lastId = visuals[i].id]
     ELSE IF prev + dt < visuals[i].endTime - EPS
       THEN [same EXCEPT !.t = prev + dt]
     ELSE IF i < Len(visuals)
       THEN [same EXCEPT !.t = IF visuals[i + 1].type = "image"
                                 THEN visuals[i + 1].startTime + EPS
                                 ELSE visuals[i + 1].startTime,
                         !.entered = FALSE, !.lastId = visuals[i + 1].id]
     ELSE [same EXCEPT !.t = visuals[i].endTime, !.playing = FALSE]

\* getCurrentClip: the index in the sorted visuals of the clip on screen
getCurrentClip(list, t) ==
  LET visuals == visualsSorted(list)
      i == findActiveAt(t, visuals)
  IN IF i = 0 /\ t >= TotalDuration(list) - EPS THEN Len(visuals) ELSE i

\* handleClipEnd: on to the next visual, or halt after the last one
handleClipEnd(list, endedClipId, playing) ==
  LET visuals == visualsSorted(list)
      idx == FindIndex(visuals, endedClipId)
  IN IF idx # 0 /\ idx < Len(visuals)
       THEN [t |-> IF visuals[idx + 1].type = "image"
                     THEN visuals[idx + 1].startTime + EPS
                     ELSE visuals[idx + 1].startTime,
             playing |-> playing, selected |-> visuals[idx + 1].id, moved |-> TRUE]
       ELSE [t |-> 0, playing |-> FALSE, selected |-> 0, moved |-> FALSE]

\* a render of index.js after the transport has changed: the auto-select
\* effect and the effects of the AudioPlayer
TransportRender(op, playing1, t1, entered1, lastId1, selected1) ==
  \E st \in {runEffects(Player, isPlaying, playing1, seekAudio, currentTime, t1)},
     i \in {findActiveAt(t1, visualsSorted(clips))} :
     /\ st.session <= MaxTransportSession
     /\ isPlaying' = playing1
     /\ currentTime' = t1
     /\ enteredImageRef' = entered1
     /\ lastVisualIdRef' = lastId1
     /\ selectedClipId' = IF i # 0 THEN visualsSorted(clips)[i].id ELSE selected1
     /\ SetPlayer(st)
     /\ lastCall' = NoCall
     /\ lastOp' = op
     /\ UNCHANGED <<clips, drag, pendingUpload, nextId, nOps, seekAudio, fnVars, historyVars, memoVars, contextVars, waveVars,
                    mounted>>

\* handlePlayPause; playback starts while the session token has room for it
\* and for the halt that ends it
PlayPause ==
  /\ isPlaying \/ sessionRef + 2 <= MaxTransportSession
  /\ TransportRender("playPause", ~isPlaying, currentTime, enteredImageRef, lastVisualIdRef,
                     selectedClipId)

\* a frame delta that is used as it comes
clampDt_Unclamped(elapsed) == elapsed

\* let dt = (now - lastNow) / 1000; if (dt > MAX_DT) dt = MAX_DT
clampDt(elapsed) == IF elapsed > MAX_DT THEN MAX_DT ELSE elapsed

\* an animation frame while playing
Tick ==
  /\ isPlaying
  /\ \E elapsed \in FrameTimes :
       \E r \in {tick(currentTime, clampDt(elapsed), clips, enteredImageRef,
                      lastVisualIdRef)} :
         TransportRender("tick", r.playing, r.t, r.entered, r.lastId, selectedClipId)

\* handleTimeUpdate for a timeupdate event of the video on screen
VideoTimeUpdate ==
  /\ isPlaying
  /\ getCurrentClip(clips, currentTime) # 0
  /\ LET currentClip == visualsSorted(clips)[getCurrentClip(clips, currentTime)]
     IN /\ currentClip.type = "video"
        /\ \E timeSec \in TransportVideoTimes :
             LET relativeTime == Max(0, timeSec - currentClip.trimStart)
                 globalTime == currentClip.startTime + relativeTime
                 end == handleClipEnd(clips, currentClip.id, isPlaying)
             IN IF globalTime < currentClip.endTime - END_EPSILON
                  THEN TransportRender("timeUpdate", TRUE, globalTime, enteredImageRef,
                                       lastVisualIdRef, selectedClipId)
                  ELSE TransportRender("clipEnd", end.playing,
                                       IF end.moved THEN end.t ELSE currentClip.endTime,
                                       enteredImageRef, lastVisualIdRef,
                                       IF end.moved THEN end.selected ELSE selectedClipId)

\* handleTimeUpdate for a timeupdate event that arrives while the clip on
\* screen is not a video: the handler returns at its guard
StrayTimeUpdate ==
  /\ isPlaying
  /\ getCurrentClip(clips, currentTime) # 0
  /\ visualsSorted(clips)[getCurrentClip(clips, currentTime)].type # "video"
  /\ lastOp' = "timeUpdateIgnored"
  /\ UNCHANGED <<storeVars, fnVars, transportVars, playerVars, waveVars, historyVars,
                 memoVars, contextVars>>

\* handleTimelineClick: the time and the clip handed to onSeek for a click at
\* `time`; 0 is no clip
handleTimelineClick(list, time) ==
  LET clickedTime == Max(0, Min(time, TotalDuration(list)))
      hit == {i \in 1..Len(list) :
                clickedTime >= list[i].startTime /\ clickedTime <= list[i].endTime}
  IN [time |-> clickedTime,
      clipId |-> IF hit = {} THEN 0
                 ELSE list[CHOOSE i \in hit : \A j \in hit : i <= j].id]

\* the time handleSeek passes to setCurrentTime; clipId 0 is null
handleSeek(list, time, clipId) ==
  LET clamped == Max(0, Min(time, TotalDuration(list) - EPS))
      visuals == visualsSorted(list)
      i == findActiveAt(clamped, visuals)
      found == IF clipId # 0 THEN FindIndex(list, clipId) # 0 ELSE i # 0
      targetClip == IF clipId # 0 THEN list[FindIndex(list, clipId)] ELSE visuals[i]
  IN IF found /\ targetClip.type = "image"
       THEN Min(targetClip.endTime - EPS, Max(targetClip.startTime + EPS, clamped))
       ELSE clamped

\* a seek: a click on the timeline (onSeek with the clip under the pointer) or
\* an arrow key (handleSeek with a time only); the AudioPlayer is stopped
\* through its handle and seekAudio is bumped
TransportSeek ==
  /\ seekAudio < MaxSeeks
  /\ sessionRef + 3 <= MaxTransportSession
  /\ \E time \in TransportSeekTimes, click \in BOOLEAN :
       \E t1 \in {IF click
                    THEN handleSeek(clips, handleTimelineClick(clips, time).time,
                                    handleTimelineClick(clips, time).clipId)
                    ELSE handleSeek(clips, time, 0)},
          clipId \in {IF click THEN handleTimelineClick(clips, time).clipId ELSE 0} :
         \E st \in {runEffects(bumpAndStop(Player), isPlaying, isPlaying, seekAudio + 1,
                                currentTime, t1)},
            i \in {findActiveAt(t1, visualsSorted(clips))} :
           /\ currentTime' = t1
           /\ seekAudio' = seekAudio + 1
           /\ selectedClipId' = IF i # 0 THEN visualsSorted(clips)[i].id
                                 ELSE IF clipId # 0 THEN clipId ELSE selectedClipId
           /\ SetPlayer(st)
           /\ lastCall' = NoCall
           /\ lastOp' = "seek"
           /\ UNCHANGED <<clips, drag, pendingUpload, nextId, nOps, isPlaying,
                          enteredImageRef, lastVisualIdRef, fnVars, historyVars,
                          memoVars, contextVars, waveVars, mounted>>

NextTransport ==
  \/ PlayPause
  \/ Tick
  \/ VideoTimeUpdate
  \/ StrayTimeUpdate

SpecTransport == SchedInitOf(TransportClipLists) /\ [][NextTransport]_vars

\* a play toggle that never rewinds
restartTime_Stay(list, t) == t

\* handlePlayPause of part_006 on the way to play: the time the clock is reset
\* to when it stands at or after the end of the last visual, else the time
\* it stands at
restartTime(list, t) ==
  LET visuals == visualsSorted(list)
  IN IF visuals # <<>> /\ t >= TotalDuration(list) - EPS
       THEN Max(0, visuals[1].startTime + EPS)
       ELSE t

\* handlePlayPause of part_006: a toggle to play at the end rewinds the clock,
\* stops the AudioPlayer through its handle and bumps seekAudio
PlayPauseRestart ==
  /\ isPlaying \/ sessionRef + 3 <= MaxTransportSession
  /\ \E t1 \in {IF isPlaying THEN currentTime ELSE restartTime(clips, currentTime)} :
       \E rewinds \in {~isPlaying /\ visualsSorted(clips) # <<>>
                          /\ currentTime >= TotalDuration(clips) - EPS} :
         \E st \in {runEffects(IF rewinds THEN bumpAndStop(Player) ELSE Player,
                                isPlaying, ~isPlaying,
                                IF rewinds THEN seekAudio + 1 ELSE seekAudio,
                                currentTime, t1)},
            i \in {findActiveAt(t1, visualsSorted(clips))} :
           /\ isPlaying' = ~isPlaying
           /\ currentTime' = t1
           /\ seekAudio' = IF rewinds THEN seekAudio + 1 ELSE seekAudio
           /\ selectedClipId' = IF i # 0 THEN visualsSorted(clips)[i].id
                                 ELSE selectedClipId
           /\ SetPlayer(st)
           /\ lastCall' = NoCall
           /\ lastOp' = "playPause"
           /\ UNCHANGED <<clips, drag, pendingUpload, nextId, nOps, enteredImageRef,
                          lastVisualIdRef, fnVars, historyVars, memoVars, contextVars, waveVars,
                          mounted>>

\* the transport of part_006; its tick is the tick above on a timeline whose
\* first visual starts at 0
NextRestart ==
  \/ PlayPauseRestart
  \/ Tick
  \/ VideoTimeUpdate
  \/ StrayTimeUpdate

SpecRestart == SchedInitOf(TransportClipLists) /\ [][NextRestart]_vars

\* the transport with seeks
NextSeek ==
  \/ NextTransport
  \/ TransportSeek

SpecSeek == SchedInitOf(TransportClipLists) /\ [][NextSeek]_vars

\* animation frames keep coming while the tick effect is running
SpecTransportLive == SpecTransport /\ WF_vars(Tick)

ImagesOnly == \A c \in Range(clips) : c.type = "image"
LastVisualEnd == visualsSorted(clips)[Len(visualsSorted(clips))].endTime

C24_OneSourcePerClip ==
  /\ \A s1 \in sources : \A s2 \in sources : s1.id = s2.id => s1 = s2
  /\ \A s1 \in sources : \E e \in active : e.id = s1.id /\ e.src = s1

\* C25: a source started when a decode completes starts from the asset
\* position of the playhead at that moment, trimStart + (t - startTime) with
\* t the currentTime at the start of the source.
C25_OffsetAlignedAtStart ==
  [][lastOp' = "decodeOk" =>
      \A e \in active' \ active :
        e.offset = e.trimStart + (Max(currentTime', e.startTime) - e.startTime)]_vars

----------------------------------------------------------------------------
(* The AudioPlayer while the audio clip that plays is moved or trimmed *)

MaxEdits == 2        \* drags of the audio clip in one run

EditClipLists ==
  { <<SchedVideo,
      [id |-> 2, type |-> "audio", url |-> 10, duration |-> 300, startTime |-> 0,
       endTime |-> 200, trimStart |-> 50, trimEnd |-> 50, track |-> 0]>> }

\* the effects of the AudioPlayer after a render with a new clip list: the
\* prefetch effect, then the main scheduler effect
editEffects(st, list, playing, t) ==
  schedulerEffect(prefetchEffect(st, list), playing, t, activeAudioClips(list, t))

\* a mousemove of a drag of an audio clip: Timeline.js handleMouseMove hands
\* its update to handleClipUpdate, and the AudioPlayer sees the new list
ClipEdited ==
  /\ mounted
  /\ nOps < MaxEdits
  /\ \E i \in 1..Len(clips), type \in DragTypes, deltaTime \in Deltas \ {0} :
       /\ IsAudio(clips[i])
       /\ \E list \in {handleMouseMove(clips,
                           [type |-> type, clipId |-> clips[i].id,
                            startTime |-> clips[i].startTime,
                            endTime |-> clips[i].endTime,
                            trimStart |-> clips[i].trimStart,
                            trimEnd |-> clips[i].trimEnd], deltaTime)} :
            \E st \in {editEffects(Player, list, isPlaying, currentTime)} :
              /\ list # clips
              /\ Cardinality(st.calls) <= MaxCalls
              /\ clips' = list
              /\ SetPlayer(st)
  /\ nOps' = nOps + 1
  /\ lastCall' = NoCall
  /\ lastOp' = "edit"
  /\ UNCHANGED <<selectedClipId, drag, pendingUpload, nextId, fnVars, historyVars, memoVars, contextVars, transportVars,
                 waveVars, mounted>>

NextEdit ==
  \/ ClipEdited
  \/ HandlePlayPause
  \/ HandleTimeUpdate
  \/ BufferDecoded
  \/ SourceEnded

SpecEdit == SchedInitOf(EditClipLists) /\ [][NextEdit]_vars

C27_ActiveSubsetOfWanted ==
  [][(/\ isPlaying'
      /\ lastOp' \in {"playPause", "timeUpdate", "seek"}
      /\ (isPlaying' # isPlaying \/ currentTime' # currentTime)) =>
        {e.id : e \in active'}
          \subseteq {c.id : c \in Range(activeAudioClips(clips', currentTime'))}]_vars

\* a time update has taken the playhead out of the window of clip 2, which
\* was playing, and its handle is gone while clip 3 plays on
C27_Witness ==
  /\ lastOp = "timeUpdate"
  /\ isPlaying
  /\ currentTime = 250
  /\ {e.id : e \in active} = {3}
  /\ \E s \in sources : s.id = 3 /\ s.timelineNow < 200
  /\ \E t \in timers : t.src.id = 3

\* C28: while the transport is paused the active map is empty: the pause
\* effect empties it, and no decode that completes during the pause adds a
\* handle to it.
C28_NoHandleWhilePaused ==
  /\ [](~isPlaying => active = {})
  /\ [][(~isPlaying /\ ~isPlaying') => active' = {}]_vars

\* the decode of a start requested during playback has completed in the pause
\* that followed, and has added no handle
C28_Witness ==
  /\ ~isPlaying
  /\ mounted
  /\ lastOp = "decodeOk"
  /\ lastCall.kind = "start"
  /\ lastCall.sessionAtStart = sessionRef - 1
  /\ active = {}
  /\ sources = {}

\* the mouse move of a drag has changed startTime, trimStart or trimEnd of the
\* dragged clip (an image's right trim asks for duration and endTime only)
TimingEdited ==
  /\ drag # NoDrag
  /\ lastOp' \in {"move", "trim-left", "trim-right"}
  /\ FindIndex(clips, drag.clipId) # 0
  /\ FindIndex(clips', drag.clipId) # 0
  /\ LET c == clips[FindIndex(clips, drag.clipId)]
         n == clips'[FindIndex(clips', drag.clipId)]
     IN /\ ~(c.type = "image" /\ drag.type = "trim-right")
        /\ \/ n.startTime # c.startTime
           \/ n.trimStart # c.trimStart
           \/ n.trimEnd # c.trimEnd

\* C29: a Move/Trim that changes startTime, trimStart or trimEnd of an Audio
\* clip stores the list with track layering re-run on it, and one that changes
\* them on a Video/Image clip stores the list with reflow re-run on it, in the
\* same store update.
C29_EditRerunsLayout ==
  [][TimingEdited =>
       \E deltaTime \in Deltas :
         LET merged == handleMouseMove(clips, drag, deltaTime)
         IN IF IsAudio(clips[FindIndex(clips, drag.clipId)])
              THEN clips' = fixAudioTrackLayers(merged)
              ELSE clips' = autoReflowClips(merged)]_vars

----------------------------------------------------------------------------
(* Clip Store with history: the page of src/unnamed/part_006, whose        *)
(* handleClipUpdate builds the new list from clipsRef.current and hands it *)
(* to updateClips. clipsRef.current is set by an effect after each render, *)
(* so during one event it is the list the event started with: `ref` below. *)

MAX_HISTORY == 30
MIN_VISIBLE == 1                      \* Math.max(0.001, ...) seconds

\* the onClipUpdate calls one mousemove event makes, in order; `cur` is the
\* clips prop the handler reads
onClipUpdateCalls(cur, d, deltaTime) ==
  LET clip == cur[FindIndex(cur, d.clipId)]
      call(id, updates) == [clipId |-> id, updates |-> updates]
  IN IF d.type = "move" THEN
       LET newStartTime == Max(0, d.startTime + deltaTime)
           clipDuration == d.endTime - d.startTime
       IN <<call(clip.id,
            [startTime |-> newStartTime, endTime |-> newStartTime + clipDuration])>>
     ELSE IF d.type = "trim-left" THEN
       IF clip.type = "image" THEN
         LET newStart == Max(0, d.startTime + deltaTime)
             newDuration == Max(MIN_CLIP_DURATION, d.endTime - newStart)
         IN <<call(clip.id,
              [startTime |-> newStart, endTime |-> d.endTime, duration |-> newDuration])>>
       ELSE
         LET newTrimStart == Min(Max(0, d.trimStart + deltaTime),
                                 clip.duration - d.trimEnd - MIN_CLIP_DURATION)
             trimChange == newTrimStart - d.trimStart
             newStartTime == d.startTime + trimChange
             newTimelineDuration == clip.duration - newTrimStart - d.trimEnd
             newEndTime == newStartTime + newTimelineDuration
         IN <<call(clip.id,
              [trimStart |-> newTrimStart, startTime |-> newStartTime,
               endTime |-> newEndTime])>>
     ELSE \* trim-right
       IF clip.type = "image" THEN
         LET later == SortByStartTime(
                        SelectSeq(cur, LAMBDA c : c.startTime > clip.startTime))
             hasNext == later # <<>>
             nextClip == later[1]
             newEndTime0 == d.endTime + deltaTime
             overlap == newEndTime0 - nextClip.startTime
             shrinkGap == d.endTime - newEndTime0
             pulledStart == Max(0, nextClip.startTime - shrinkGap)
             pulledEnd == Max(pulledStart + (nextClip.endTime - nextClip.startTime), 0)
             forNext ==
               IF deltaTime > 0 /\ hasNext /\ overlap > 0
                 THEN <<call(nextClip.id,
                        [startTime |-> nextClip.startTime + overlap,
                         endTime |-> nextClip.endTime + overlap])>>
               ELSE IF deltaTime < 0 /\ hasNext
                 THEN <<call(nextClip.id,
                        [startTime |-> pulledStart, endTime |-> pulledEnd])>>
               ELSE <<>>
             newEndTime == Max(newEndTime0, d.startTime + MIN_CLIP_DURATION)
             newDuration == newEndTime - d.startTime
         IN forNext \o <<call(clip.id,
                          [duration |-> newDuration, endTime |-> newEndTime])>>
       ELSE
         LET newTrimEnd == Min(Max(0, d.trimEnd - deltaTime),
                               clip.duration - d.trimStart - MIN_CLIP_DURATION)
             newTimelineDuration == clip.duration - d.trimStart - newTrimEnd
         IN <<call(clip.id,
              [trimEnd |-> newTrimEnd, endTime |-> d.startTime + newTimelineDuration])>>

\* the list handleClipUpdate of part_006 hands to updateClips; prev is
\* clipsRef.current and holds the clip
handleClipUpdateFromRef(prev, clipId, updates) ==
  LET target == prev[FindIndex(prev, clipId)]
      merged == [i \in 1..Len(prev) |->
                   IF prev[i].id = clipId THEN Merge(prev[i], updates) ELSE prev[i]]
      affectsTimeline == \/ "startTime" \in DOMAIN updates
                         \/ "trimStart" \in DOMAIN updates
                         \/ "trimEnd" \in DOMAIN updates
      newClip == merged[FindIndex(merged, clipId)]
      newTrimStart == IF "trimStart" \in DOMAIN updates
                        THEN updates.trimStart ELSE target.trimStart
      newTrimEnd == IF "trimEnd" \in DOMAIN updates
                      THEN updates.trimEnd ELSE target.trimEnd
      mediaDuration == IF newClip.duration # 0 THEN newClip.duration
                       ELSE newClip.endTime - newClip.startTime
      visibleLen == Max(MIN_VISIBLE, mediaDuration - newTrimStart - newTrimEnd)
      newStartTime == IF "startTime" \in DOMAIN updates
                        THEN updates.startTime
                        ELSE target.startTime + (newTrimStart - target.trimStart)
      newEndTime == newStartTime + visibleLen
      timed == [i \in 1..Len(merged) |->
                  IF merged[i].id = clipId
                    THEN [merged[i] EXCEPT !.trimStart = newTrimStart,
                                           !.trimEnd = newTrimEnd,
                                           !.startTime = newStartTime,
                                           !.endTime = newEndTime]
                    ELSE merged[i]]
  IN IF IsVisual(target) /\ affectsTimeline THEN autoReflowClips(timed) ELSE merged

\* the list the store holds after the calls of one event: each call builds
\* its list from ref and setClips replaces what the call before it had set
RECURSIVE setClipsEach(_, _, _)
setClipsEach(ref, cs, held) ==
  IF cs = <<>> THEN held
  ELSE LET k == Head(cs)
       IN setClipsEach(ref, Tail(cs),
            IF FindIndex(ref, k.clipId) = 0 THEN held
            ELSE handleClipUpdateFromRef(ref, k.clipId, k.updates))

\* an updateClips that never drops the oldest snapshot
updateClips_Uncapped(undoStack, currentSnapshot) ==
  IF undoStack = <<>> \/ undoStack[Len(undoStack)] # currentSnapshot
    THEN Append(undoStack, currentSnapshot)
    ELSE undoStack

\* undoStackRef.current after updateClips has recorded the snapshot of
\* clipsRef.current
updateClips(undoStack, currentSnapshot) ==
  LET pushed == IF undoStack = <<>> \/ undoStack[Len(undoStack)] # currentSnapshot
                  THEN Append(undoStack, currentSnapshot)
                  ELSE undoStack
  IN IF Len(pushed) > MAX_HISTORY THEN Tail(pushed) ELSE pushed

\* undoStackRef.current after the calls of one event
RECURSIVE updateClipsEach(_, _, _)
updateClipsEach(undoStack, ref, cs) ==
  IF cs = <<>> THEN undoStack
  ELSE updateClipsEach(IF FindIndex(ref, Head(cs).clipId) = 0 THEN undoStack
                       ELSE updateClips(undoStack, ref),
                       ref, Tail(cs))

\* one mousemove of a drag on the page with history
MouseMoveWithHistory ==
  /\ nOps < MaxOps
  /\ drag # NoDrag
  /\ FindIndex(clips, drag.clipId) # 0
  /\ \E deltaTime \in Deltas : \E cs \in {onClipUpdateCalls(clips, drag, deltaTime)} :
       /\ clips' = setClipsEach(clips, cs, clips)
       /\ undoStackRef' = updateClipsEach(undoStackRef, clips, cs)
       /\ redoStackRef' = IF \E i \in 1..Len(cs) : FindIndex(clips, cs[i].clipId) # 0
                           THEN <<>> ELSE redoStackRef
  /\ nOps' = nOps + 1
  /\ lastOp' = drag.type
  /\ UNCHANGED <<selectedClipId, drag, pendingUpload, nextId>>
  /\ UNCHANGED <<fnVars, transportVars, playerVars, waveVars, memoVars, contextVars>>

\* mouse up on the page with history: handleAutoLayerFix hands the layered
\* list of handleDragEnd to updateClips
MouseUpWithHistory ==
  /\ drag # NoDrag
  /\ IF drag.type = "move" /\ FindIndex(clips, drag.clipId) # 0
       THEN /\ clips' = handleDragEnd(clips, drag.clipId,
                                      clips[FindIndex(clips, drag.clipId)].startTime)
            /\ undoStackRef' = updateClips(undoStackRef, clips)
            /\ redoStackRef' = <<>>
       ELSE UNCHANGED <<clips, undoStackRef, redoStackRef>>
  /\ drag' = NoDrag
  /\ lastOp' = "mouseUp"
  /\ UNCHANGED <<selectedClipId, pendingUpload, nextId, nOps>>
  /\ UNCHANGED <<fnVars, transportVars, playerVars, waveVars, memoVars, contextVars>>

\* timelines of the page with history: an image followed by a video, two
\* images followed by a video, an image with an audio clip under it
HistoryClipLists ==
  { <<TransportClip(1, "image", 0, IMAGE_DURATION),
      TransportClip(2, "video", IMAGE_DURATION, IMAGE_DURATION + 200)>>,
    <<TransportClip(1, "image", 0, IMAGE_DURATION),
      TransportClip(2, "image", IMAGE_DURATION, 2 * IMAGE_DURATION),
      TransportClip(3, "video", 2 * IMAGE_DURATION, 2 * IMAGE_DURATION + 200)>>,
    <<TransportClip(1, "image", 0, IMAGE_DURATION),
      TransportClip(2, "video", IMAGE_DURATION, IMAGE_DURATION + 200),
      TransportClip(3, "audio", 0, 200)>> }

NextHistory ==
  \/ MouseDown
  \/ MouseMoveWithHistory
  \/ MouseUpWithHistory

SpecHistory == SchedInitOf(HistoryClipLists) /\ [][NextHistory]_vars

\* the list after the calls of one event have been applied one after the
\* other, each to the result of the one before it
RECURSIVE AppliedInOrder(_, _)
AppliedInOrder(list, cs) ==
  IF cs = <<>> THEN list
  ELSE AppliedInOrder(IF FindIndex(list, Head(cs).clipId) = 0 THEN list
                      ELSE handleClipUpdateFromRef(list, Head(cs).clipId, Head(cs).updates),
                      Tail(cs))

\* C30: when one event issues two clip updates back-to-back (an image's right
\* trim that first moves the next clip and then resizes the image), the list
\* the store holds afterwards is the one with both updates applied, the second
\* to the result of the first; neither is overwritten by the other.
C30_BackToBackUpdatesBothApplied ==
  [][(/\ drag # NoDrag
      /\ lastOp' \in {"move", "trim-left", "trim-right"}
      /\ FindIndex(clips, drag.clipId) # 0)
       => \E deltaTime \in Deltas :
            clips' = AppliedInOrder(clips, onClipUpdateCalls(clips, drag, deltaTime))]_vars

----------------------------------------------------------------------------
(* A start that the audio context rejects: src.start(when, offset, dur)    *)
(* throws in the then-callback of startClip                                *)

\* the then-callback gets as far as src.start: both guards pass and dur > 0
ReachesStart(st, k) == k.kind = "start" /\ startContinuation(st, k) # st

\* a catch branch that tracks the source although it never started
startRejected_AddsHandle(st, k) == startContinuation(st, k)

\* the then-callback of startClip when src.start throws: the catch branch
\* disconnects src and g and returns before active.set and the teardown timer
startRejected(st, k) == st

\* getBuffer resolves for a pending start and src.start throws
StartRejected ==
  \E k \in calls :
    /\ \E st \in {[Player EXCEPT !.calls = @ \ {k}, !.cache = @ \cup {k.url}]} :
         /\ ReachesStart(st, k)
         /\ SetPlayer(startRejected(st, k))
    /\ lastCall' = k
    /\ lastOp' = "startRejected"
    /\ UNCHANGED <<storeVars, fnVars, historyVars, memoVars, contextVars, waveVars, transportVars, mounted>>

NextReject ==
  \/ HandlePlayPause
  \/ HandleTimeUpdate
  \/ BufferDecoded
  \/ StartRejected
  \/ SourceEnded

SpecReject == SchedInit /\ [][NextReject]_vars

\* C31: a start whose src.start throws adds no handle, source or timer; and a
\* tick (a run of the scheduler effect on a new currentTime while playing)
\* attempts a start for every wanted clip in its window that has no handle:
\* after it the clip has a handle or a start of the current session is pending.
C31_RejectedStartRetried ==
  /\ [][lastOp' = "startRejected" =>
          /\ active' = active
          /\ sources' = sources
          /\ timers' = timers]_vars
  /\ [][(lastOp' = "timeUpdate" /\ isPlaying' /\ currentTime' # currentTime) =>
          \A i \in 1..Len(clips) :
            (/\ IsAudio(clips[i])
             /\ currentTime' >= clips[i].startTime
             /\ currentTime' < Min(clips[i].endTime, TotalDuration(clips))
             /\ inWindow(clips[i], currentTime'))
            => \/ clips[i].id \in {e.id : e \in active'}
               \/ \E k \in calls' : /\ k.kind = "start"
                                    /\ k.clip.id = clips[i].id
                                    /\ k.sessionAtStart = sessionRef']_vars

\* the start of clip 2 requested at play was rejected, and the tick at 175 ms
\* has started it again: no start is pending and its source dates from the tick
C31_Witness ==
  /\ lastOp = "timeUpdate"
  /\ isPlaying
  /\ sessionRef = 2
  /\ currentTime = 175
  /\ \A k \in calls : k.kind # "start"
  /\ \E e \in active : e.id = 2 /\ e.src.timelineNow = 175

----------------------------------------------------------------------------
(* The AudioPlayer of src/unnamed/part_001, whose getBuffer stores the     *)
(* promise of the fetch and decode under the url                            *)

PlayerMemo ==
  [session |-> sessionRef, playingRef |-> isPlayingRef, lastSeek |-> lastSeekRef,
   active |-> active, calls |-> calls, cache |-> cache, sources |-> sources,
   lastStop |-> lastStop, timers |-> timers, promises |-> promises]

SetPlayerMemo(st) ==
  /\ SetPlayer(st)
  /\ promises' = st.promises

\* the promises after the prefetch effect of the mount: one fetch per audio url
PrefetchedPromises(list) ==
  [u \in {list[i].url : i \in {j \in 1..Len(list) : IsAudio(list[j])}} |->
     [state |-> "pending", fetches |-> 1]]

MemoInit ==
  /\ SchedInitBase(SchedClipLists)
  /\ promises = PrefetchedPromises(clips)
  /\ ContextInit

\* a render of the page and the effects of the AudioPlayer after it
RenderMemo(op, playing1, t1, seek1) ==
  \E st \in {runEffects(PlayerMemo, isPlaying, playing1, seek1, currentTime, t1)} :
     /\ st.session <= MaxSession
     /\ Cardinality(st.calls) <= MaxCalls
     /\ isPlaying' = playing1
     /\ currentTime' = t1
     /\ seekAudio' = seek1
     /\ UNCHANGED <<enteredImageRef, lastVisualIdRef>>
     /\ SetPlayerMemo(st)
     /\ lastCall' = NoCall
     /\ lastOp' = op
     /\ UNCHANGED <<storeVars, fnVars, historyVars, contextVars, waveVars, mounted>>

PlayPauseMemo ==
  /\ mounted
  /\ RenderMemo("playPause", ~isPlaying, currentTime, seekAudio)

TimeUpdateMemo ==
  /\ mounted
  /\ isPlaying
  /\ \E timeSec \in VideoTimes :
       LET currentClip == clips[1]
           relativeTime == Max(0, timeSec - currentClip.trimStart)
           globalTime == currentClip.startTime + relativeTime
       IN IF globalTime < currentClip.endTime - END_EPSILON
            THEN RenderMemo("timeUpdate", TRUE, globalTime, seekAudio)
            ELSE RenderMemo("clipEnd", FALSE, currentClip.endTime, seekAudio)

\* the fetch or the decode of a url fails: its promise rejects, the catch
\* handlers of those that await it run, and the promise stays in the cache
PromiseRejected ==
  \E url \in DOMAIN promises :
    /\ promises[url].state = "pending"
    /\ promises' = [promises EXCEPT ![url].state = "rejected"]
    /\ calls' = {k \in calls : k.url # url}
    /\ lastCall' = [kind |-> "rejected", url |-> url]
    /\ lastOp' = "decodeFailed"
    /\ UNCHANGED <<storeVars, fnVars, historyVars, contextVars, waveVars, transportVars, mounted,
                   sessionRef, isPlayingRef, lastSeekRef, active, cache, sources,
                   lastStop, timers>>

\* the fetch and the decode of a url succeed: its promise resolves
PromiseResolved ==
  \E url \in DOMAIN promises :
    /\ promises[url].state = "pending"
    /\ promises' = [promises EXCEPT ![url].state = "resolved"]
    /\ lastCall' = [kind |-> "resolved", url |-> url]
    /\ lastOp' = "decodeOk"
    /\ UNCHANGED <<storeVars, fnVars, historyVars, contextVars, waveVars, transportVars, mounted,
                   sessionRef, isPlayingRef, lastSeekRef, active, calls, cache, sources,
                   lastStop, timers>>

\* a then-callback that awaits a resolved promise runs
AwaiterResumed ==
  \E k \in calls :
    /\ k.url \in DOMAIN promises
    /\ promises[k.url].state = "resolved"
    /\ SetPlayerMemo(resume([PlayerMemo EXCEPT !.calls = @ \ {k}], k))
    /\ lastCall' = k
    /\ lastOp' = "resumed"
    /\ UNCHANGED <<storeVars, fnVars, historyVars, contextVars, waveVars, transportVars, mounted>>

NextMemo ==
  \/ PlayPauseMemo
  \/ TimeUpdateMemo
  \/ PromiseRejected
  \/ PromiseResolved
  \/ AwaiterResumed
  \/ SourceEnded

SpecMemo == MemoInit /\ [][NextMemo]_vars

\* C32: in the promise-memoizing getBuffer a promise that has rejected stays
\* in the cache: no later getBuffer for its url starts a new fetch, nothing
\* awaits it any more, and no clip of that url gets a handle in any later tick
\* or play cycle.
C32_RejectedPromiseKept ==
  /\ [](\A url \in DOMAIN promises :
          promises[url].state = "rejected" =>
            /\ promises[url].fetches = 1
            /\ \A e \in active : e.url # url
            /\ \A k \in calls : k.url # url)
  /\ [][\A url \in DOMAIN promises :
          promises[url].state = "rejected" =>
            url \in DOMAIN promises' /\ promises'[url] = promises[url]]_vars

\* the fetch of url 10 failed; a tick at 175 ms, inside the window of clip 2,
\* has asked for it again and has started nothing
C32_Witness ==
  /\ lastOp = "timeUpdate"
  /\ isPlaying
  /\ currentTime = 175
  /\ 10 \in DOMAIN promises
  /\ promises[10].state = "rejected"
  /\ \E i \in 1..Len(clips) : /\ clips[i].id = 2
                              /\ clips[i].url = 10
                              /\ inWindow(clips[i], currentTime)
  /\ \A e \in active : e.id # 2

\* C33: one source drives the clock at a time. While the clip at the playhead
\* is a video a tick leaves currentTime unchanged, and a time update of the
\* media element that is short of the clip's end sets it to
\* startTime + max(0, elementTime - trimStart); time updates move the clock
\* only while the clip on screen is a video, and are ignored while it is an
\* image; a tick inside an image it has entered advances currentTime by the
\* frame delta clamped to MAX_DT.
C33_OneClockSource ==
  [][LET visuals == visualsSorted(clips)
         a == findActiveAt(currentTime, visuals)
         shown == getCurrentClip(clips, currentTime)
     IN /\ (lastOp' = "tick" /\ a # 0 /\ visuals[a].type = "video")
             => currentTime' = currentTime
        /\ lastOp' \in {"timeUpdate", "clipEnd"}
             => shown # 0 /\ visuals[shown].type = "video"
        /\ lastOp' = "timeUpdate"
             => \E timeSec \in TransportVideoTimes :
                  currentTime' = visuals[shown].startTime
                                   + Max(0, timeSec - visuals[shown].trimStart)
        /\ lastOp' = "timeUpdateIgnored"
             => /\ shown # 0 /\ visuals[shown].type = "image"
                /\ UNCHANGED transportVars
        /\ (/\ lastOp' = "tick"
            /\ a # 0 /\ visuals[a].type = "image"
            /\ enteredImageRef /\ lastVisualIdRef = visuals[a].id
            /\ enteredImageRef' /\ isPlaying')
             => /\ currentTime' - currentTime <= MAX_DT
                /\ \E elapsed \in FrameTimes :
                     currentTime' = currentTime
                                      + (IF elapsed > MAX_DT THEN MAX_DT ELSE elapsed)]_vars

\* the video has played to its end under the time updates of the element,
\* and the ticks have since taken the clock MAX_DT into the image after it
C33_Witness ==
  /\ lastOp = "tick"
  /\ isPlaying
  /\ visualsSorted(clips)[1].type = "video"
  /\ lastVisualIdRef = 2
  /\ enteredImageRef
  /\ currentTime = visualsSorted(clips)[2].startTime + EPS + MAX_DT

\* the step takes the clock into an image: a seek or the end of a video lands
\* in its window, or a tick is the first on it or moves on to it
EntersImage(img) ==
  LET visuals == visualsSorted(clips)
      a == findActiveAt(currentTime, visuals)
      b == findActiveAt(currentTime', visuals)
  IN /\ b # 0
     /\ visuals[b] = img
     /\ img.type = "image"
     /\ \/ lastOp' \in {"seek", "clipEnd"}
        \/ /\ lastOp' = "tick"
           /\ \/ a # b
              \/ ~enteredImageRef
              \/ lastVisualIdRef # img.id

\* C34: whenever the clock enters an image (the segment before it ended, a
\* seek landed in it, or a tick is the first on it), currentTime is at least
\* startTime + EPS afterwards, and a tick that enters it does not halt the
\* transport.
C34_ImageEnteredInside ==
  [][\A i \in 1..Len(clips) :
       EntersImage(clips[i]) =>
         /\ currentTime' >= clips[i].startTime + EPS
         /\ lastOp' = "tick" => isPlaying']_vars

----------------------------------------------------------------------------
(* Reflow of the same clips in another order                               *)

\* autoReflowClips applied to the input list in some other order, after it
\* was applied to the list as given
ApplyReflowPermuted ==
  /\ Len(fnOut) = 1
  /\ lastOp = "reflow"
  /\ \E p \in Permutations(DOMAIN fnIn) :
       fnOut' = Append(fnOut, autoReflowClips([i \in DOMAIN fnIn |-> fnIn[p[i]]]))
  /\ lastOp' = "reflowPermuted"
  /\ UNCHANGED <<fnIn, fnArgs>>
  /\ UNCHANGED notFn

NextPermuted ==
  \/ FnExtend
  \/ ApplyReflow
  \/ ApplyReflowPermuted

SpecPermuted == FnInit /\ [][NextPermuted]_vars

\* C36: reflow orders visual clips by startTime and breaks ties between
\* equal startTimes by id, so every ordering of the same clips in the input
\* list gives every clip the same place in the result.
C36_ReflowOrderIndependent ==
  lastOp = "reflowPermuted" => Range(fnOut[2]) = Range(fnOut[1])

----------------------------------------------------------------------------
(* The global AudioContext: utils/audio-helpers.js                         *)

\* the state a newly constructed AudioContext reports
NewContextStates == {"suspended", "running"}

\* a call of ensureAudioContextOnGesture has settled with the given value
settle(value) ==
  [calls |-> ensured.calls, settled |-> ensured.settled + 1, value |-> value]

\* ensureAudioContextOnGesture(): the valid global context, else the promise
\* in creatingPromise, else an immediate construction whose async function
\* runs to its first await before creatingPromise is assigned, else the
\* promise that waits for the next gesture
EnsureAudioContextOnGesture ==
  /\ ensured.calls < MaxEnsures
  /\ lastOp' = "ensure"
  /\ LET called == [ensured EXCEPT !.calls = @ + 1]
         resolved(v) == [called EXCEPT !.settled = @ + 1, !.value = v]
     IN IF globalAudioContext # 0 /\ audioContexts[globalAudioContext] # "closed"
          THEN /\ ensured' = resolved(globalAudioContext)
               /\ UNCHANGED <<globalAudioContext, creatingPromise, audioContexts>>
        ELSE IF creatingPromise # NoPromise
          THEN /\ ensured' = IF creatingPromise.state = "resolved"
                               THEN resolved(creatingPromise.value) ELSE called
               /\ UNCHANGED <<globalAudioContext, creatingPromise, audioContexts>>
        ELSE \/ \E state \in NewContextStates :
                  \* tryCreateAudioContextSync returned a context
                  /\ Len(audioContexts) < MaxContexts
                  /\ audioContexts' = Append(audioContexts, state)
                  /\ globalAudioContext' = Len(audioContexts) + 1
                  /\ IF state = "suspended"
                       THEN /\ creatingPromise' =
                                 [kind |-> "immediate", state |-> "pending",
                                  value |-> 0, ctx |-> Len(audioContexts) + 1]
                            /\ ensured' = called
                       ELSE /\ creatingPromise' =
                                 [kind |-> "immediate", state |-> "resolved",
                                  value |-> Len(audioContexts) + 1,
                                  ctx |-> Len(audioContexts) + 1]
                            /\ ensured' = resolved(Len(audioContexts) + 1)
             \/ \* tryCreateAudioContextSync returned null
                /\ creatingPromise' = [kind |-> "listening", state |-> "pending",
                                       value |-> 0, ctx |-> 0]
                /\ ensured' = called
                /\ UNCHANGED <<globalAudioContext, audioContexts>>
  /\ UNCHANGED closing
  /\ UNCHANGED <<storeVars, fnVars, transportVars, playerVars, waveVars, historyVars,
                 memoVars>>

\* createNow, the listener of the next pointerdown or keydown, up to its
\* await of resume() or, without one, through its finally block
CreateNow ==
  /\ creatingPromise.kind = "listening"
  /\ lastOp' = "gesture"
  /\ \E made \in IF globalAudioContext # 0 THEN {"kept"}
                 ELSE IF Len(audioContexts) < MaxContexts
                   THEN NewContextStates \cup {"failed"} ELSE {"failed"} :
       LET ctx == IF made = "kept" THEN globalAudioContext
                  ELSE IF made = "failed" THEN 0 ELSE Len(audioContexts) + 1
           state == IF made = "kept" THEN audioContexts[globalAudioContext] ELSE made
       IN /\ globalAudioContext' = ctx
          /\ audioContexts' = IF made \in NewContextStates
                                THEN Append(audioContexts, made) ELSE audioContexts
          /\ IF ctx # 0 /\ state = "suspended"
               THEN /\ creatingPromise' = [kind |-> "resuming", state |-> "pending",
                                           value |-> 0, ctx |-> ctx]
                    /\ UNCHANGED ensured
               ELSE /\ creatingPromise' = NoPromise
                    /\ ensured' = settle(ctx)
  /\ UNCHANGED closing
  /\ UNCHANGED <<storeVars, fnVars, transportVars, playerVars, waveVars, historyVars,
                 memoVars>>

\* the resume() that the creation awaits settles: creatingPromise is set to
\* null and the promise resolves to globalAudioContext as it is by then
ResumeSettled ==
  /\ creatingPromise.state = "pending"
  /\ creatingPromise.kind \in {"immediate", "resuming"}
  /\ lastOp' = "resumeSettled"
  /\ \E ok \in BOOLEAN :
       audioContexts' =
         IF ok /\ audioContexts[creatingPromise.ctx] = "suspended"
              /\ closing # creatingPromise.ctx
           THEN [audioContexts EXCEPT ![creatingPromise.ctx] = "running"]
           ELSE audioContexts
  /\ creatingPromise' = NoPromise
  /\ ensured' = settle(globalAudioContext)
  /\ UNCHANGED <<globalAudioContext, closing>>
  /\ UNCHANGED <<storeVars, fnVars, transportVars, playerVars, waveVars, historyVars,
                 memoVars>>

\* closeGlobalAudioContext() up to its await of close()
CloseGlobalAudioContext ==
  /\ globalAudioContext # 0
  /\ closing = 0
  /\ closing' = globalAudioContext
  /\ lastOp' = "close"
  /\ UNCHANGED <<globalAudioContext, creatingPromise, audioContexts, ensured>>
  /\ UNCHANGED <<storeVars, fnVars, transportVars, playerVars, waveVars, historyVars,
                 memoVars>>

\* close() has settled: closeGlobalAudioContext sets globalAudioContext to null
CloseSettled ==
  /\ closing # 0
  /\ audioContexts' = [audioContexts EXCEPT ![closing] = "closed"]
  /\ globalAudioContext' = 0
  /\ closing' = 0
  /\ lastOp' = "closed"
  /\ UNCHANGED <<creatingPromise, ensured>>
  /\ UNCHANGED <<storeVars, fnVars, transportVars, playerVars, waveVars, historyVars,
                 memoVars>>

NextContext ==
  \/ EnsureAudioContextOnGesture
  \/ CreateNow
  \/ ResumeSettled
  \/ CloseGlobalAudioContext
  \/ CloseSettled

SpecContext == FnInit /\ [][NextContext]_vars

\* C37: every call of ensureAudioContextOnGesture resolves to an AudioContext
\* that is not closed, or to null: to the global instance as long as that one
\* is valid, and to a newly constructed one on the first call after
\* closeGlobalAudioContext.
C37_EnsureResolvesToOpenContext ==
  [][ensured'.settled # ensured.settled =>
       /\ ensured'.value # 0 => audioContexts'[ensured'.value] # "closed"
       /\ (globalAudioContext # 0 /\ audioContexts[globalAudioContext] # "closed")
            => ensured'.value = globalAudioContext]_vars

----------------------------------------------------------------------------
(* Undo and redo: part_006 undo, redo                                      *)

\* the list and the two stacks as the page holds them
History == [clips |-> clips, undoStack |-> undoStackRef, redoStack |-> redoStackRef]

\* an undo that hands the restored snapshot, not the current list, to redo
undo_PushesPrevious(h) ==
  IF h.undoStack = <<>> THEN h
  ELSE LET previous == h.undoStack[Len(h.undoStack)]
       IN [clips |-> previous,
           undoStack |-> SubSeq(h.undoStack, 1, Len(h.undoStack) - 1),
           redoStack |-> Append(h.redoStack, previous)]

\* undo(): pops the last snapshot, pushes the current list on the redo stack
\* and sets the popped snapshot
undo(h) ==
  IF h.undoStack = <<>> THEN h
  ELSE LET previous == h.undoStack[Len(h.undoStack)]
       IN [clips |-> previous,
           undoStack |-> SubSeq(h.undoStack, 1, Len(h.undoStack) - 1),
           redoStack |-> Append(h.redoStack, h.clips)]

\* redo(): pops the last undone list, pushes the current list on the undo
\* stack and sets the popped list
redo(h) ==
  IF h.redoStack = <<>> THEN h
  ELSE LET next == h.redoStack[Len(h.redoStack)]
       IN [clips |-> next,
           undoStack |-> Append(h.undoStack, h.clips),
           redoStack |-> SubSeq(h.redoStack, 1, Len(h.redoStack) - 1)]

\* a click on the Undo button, enabled while canUndo
Undo ==
  /\ undoStackRef # <<>>
  /\ \E h \in {undo(History)} :
       /\ clips' = h.clips
       /\ undoStackRef' = h.undoStack
       /\ redoStackRef' = h.redoStack
  /\ lastOp' = "undo"
  /\ UNCHANGED <<selectedClipId, drag, pendingUpload, nextId, nOps>>
  /\ UNCHANGED <<fnVars, transportVars, playerVars, waveVars, memoVars, contextVars>>

\* a click on the Redo button, enabled while canRedo
Redo ==
  /\ redoStackRef # <<>>
  /\ \E h \in {redo(History)} :
       /\ clips' = h.clips
       /\ undoStackRef' = h.undoStack
       /\ redoStackRef' = h.redoStack
  /\ lastOp' = "redo"
  /\ UNCHANGED <<selectedClipId, drag, pendingUpload, nextId, nOps>>
  /\ UNCHANGED <<fnVars, transportVars, playerVars, waveVars, memoVars, contextVars>>

NextUndo ==
  \/ MouseDown
  \/ MouseMoveWithHistory
  \/ MouseUpWithHistory
  \/ Undo
  \/ Redo

SpecUndo == SchedInitOf(HistoryClipLists) /\ [][NextUndo]_vars

\* the step is an event whose handler called updateClips
UpdateApplied ==
  \/ lastOp' \in DragTypes
  \/ lastOp' = "mouseUp" /\ drag.type = "move" /\ FindIndex(clips, drag.clipId) # 0

\* C38: after updateClips(X) is applied to the clip list C, undo() restores
\* the list to C and a following redo() restores it to X.
C38_UndoRedoRoundTrip ==
  /\ [][UpdateApplied =>
          LET undone == undo([clips |-> clips', undoStack |-> undoStackRef',
                              redoStack |-> redoStackRef'])
          IN /\ undone.clips = clips
             /\ redo(undone).clips = clips']_vars
  /\ [][lastOp' = "undo" => [clips |-> clips', undoStack |-> undoStackRef',
                             redoStack |-> redoStackRef'] = undo(History)]_vars
  /\ [][lastOp' = "redo" => [clips |-> clips', undoStack |-> undoStackRef',
                             redoStack |-> redoStackRef'] = redo(History)]_vars

\* an update that changed the list has been undone and redone
C38_Witness ==
  /\ lastOp = "redo"
  /\ redoStackRef = <<>>
  /\ undoStackRef # <<>>
  /\ clips # undoStackRef[Len(undoStackRef)]

----------------------------------------------------------------------------
(* The history stacks over a long session: part_006 updateClips, undo, redo *)

\* the lists the handlers hand to updateClips
UpdatedLists == {list \in HistoryClipLists : \A i \in 1..Len(list) : IsVisual(list[i])}

\* updateClips(newClips), called by a handler with the list it has built
UpdateClipsTo ==
  /\ \E newClips \in UpdatedLists : clips' = newClips
  /\ undoStackRef' = updateClips(undoStackRef, clips)
  /\ redoStackRef' = <<>>
  /\ lastOp' = "updateClips"
  /\ UNCHANGED <<selectedClipId, drag, pendingUpload, nextId, nOps>>
  /\ UNCHANGED <<fnVars, transportVars, playerVars, waveVars, memoVars, contextVars>>

NextStacks ==
  \/ UpdateClipsTo
  \/ Undo
  \/ Redo

SpecStacks == SchedInitOf(UpdatedLists) /\ [][NextStacks]_vars

\* C39: after any sequence of updateClips, undo and redo, the undo stack and
\* the redo stack together hold at most MAX_HISTORY snapshots, so the undo
\* stack alone never holds more than MAX_HISTORY.
C39_HistoryBounded ==
  /\ Len(undoStackRef) + Len(redoStackRef) <= MAX_HISTORY
  /\ Len(undoStackRef) <= MAX_HISTORY

\* redo has refilled the undo stack up to MAX_HISTORY snapshots
C39_Witness ==
  /\ lastOp = "redo"
  /\ redoStackRef = <<>>
  /\ Len(undoStackRef) = MAX_HISTORY

====
